---- MODULE Spec2Model ----
(***************************************************************************)
(* Nutrient and energy attribution engine of the nutrition tracker         *)
(* (src/app.py): free-text keyword matching of a day's meals against the   *)
(* food_nutrients table, aggregation of food and supplement amounts per    *)
(* substance, and band-based status / severity scoring.                    *)
(*                                                                         *)
(* Numbers.  The program computes with Python floats (IEEE-754 binary64)   *)
(* and rounds with the built-in round().  Whether a value such as          *)
(* 1.4 * 0.25 lies below, on or above the decimal tie 0.35 decides what    *)
(* round(x, 1) returns, so the model keeps the binary representation: a    *)
(* float is a record [m, e] denoting m * 2^e, with m an odd natural of at  *)
(* most 53 bits (or zero), and every arithmetic operation rounds its exact *)
(* result to the nearest such value, ties to even.  Mantissas do not fit   *)
(* TLC's 32-bit integers, so naturals are little-endian sequences of       *)
(* 15-bit limbs.  Only non-negative values occur: the seed tables hold no  *)
(* negative amount and the code subtracts only the smaller from the        *)
(* larger.                                                                 *)
(***************************************************************************)
EXTENDS Integers, Sequences, FiniteSets, TLC

\* ------------------------------------------------------------------------
\* Naturals of arbitrary size: little-endian limbs, no leading zero limb.
\* ------------------------------------------------------------------------

LimbBase == 32768

LimbBits == 15

RECURSIVE Pow2(_)
Pow2(k) == IF k = 0 THEN 1 ELSE 2 * Pow2(k - 1)

RECURSIVE BNorm(_)
BNorm(a) ==
  IF a = <<>> THEN <<>>
  ELSE IF a[Len(a)] = 0 THEN BNorm(SubSeq(a, 1, Len(a) - 1))
  ELSE a

RECURSIVE BFromInt(_)
BFromInt(n) ==
  IF n = 0 THEN <<>> ELSE <<n % LimbBase>> \o BFromInt(n \div LimbBase)

RECURSIVE BAddC(_, _, _)
BAddC(a, b, c) ==
  IF a = <<>> /\ b = <<>> THEN (IF c = 0 THEN <<>> ELSE <<c>>)
  ELSE LET x == (IF a = <<>> THEN 0 ELSE Head(a)) + (IF b = <<>> THEN 0 ELSE Head(b)) + c
       IN  <<x % LimbBase>> \o BAddC(IF a = <<>> THEN <<>> ELSE Tail(a),
                                     IF b = <<>> THEN <<>> ELSE Tail(b),
                                     x \div LimbBase)

BAdd(a, b) == BAddC(a, b, 0)

\* a - b - c for a >= b + c, before normalisation
RECURSIVE BSubC(_, _, _)
BSubC(a, b, c) ==
  IF a = <<>> THEN <<>>
  ELSE LET x == Head(a) - (IF b = <<>> THEN 0 ELSE Head(b)) - c
       IN  <<IF x < 0 THEN x + LimbBase ELSE x>>
             \o BSubC(Tail(a), IF b = <<>> THEN <<>> ELSE Tail(b), IF x < 0 THEN 1 ELSE 0)

BSub(a, b) == BNorm(BSubC(a, b, 0))

\* -1, 0, 1 as a < b, a = b, a > b
RECURSIVE BCmpFrom(_, _, _)
BCmpFrom(a, b, i) ==
  IF i = 0 THEN 0
  ELSE IF a[i] < b[i] THEN -1
  ELSE IF a[i] > b[i] THEN 1
  ELSE BCmpFrom(a, b, i - 1)

BCmp(a, b) ==
  IF Len(a) < Len(b) THEN -1
  ELSE IF Len(a) > Len(b) THEN 1
  ELSE BCmpFrom(a, b, Len(a))

\* a * k + c for a limb-sized k
RECURSIVE BMulS(_, _, _)
BMulS(a, k, c) ==
  IF a = <<>> THEN (IF c = 0 THEN <<>> ELSE <<c>>)
  ELSE LET x == Head(a) * k + c
       IN  <<x % LimbBase>> \o BMulS(Tail(a), k, x \div LimbBase)

RECURSIVE BMul(_, _)
BMul(a, b) ==
  IF a = <<>> \/ b = <<>> THEN <<>>
  ELSE LET rest == BMul(a, Tail(b))
       IN  BAdd(BMulS(a, Head(b), 0), IF rest = <<>> THEN <<>> ELSE <<0>> \o rest)

\* quotient and remainder by a limb-sized k, from the most significant limb
RECURSIVE BDivSFrom(_, _, _, _, _)
BDivSFrom(a, k, i, q, r) ==
  IF i = 0 THEN [q |-> BNorm(q), r |-> r]
  ELSE BDivSFrom(a, k, i - 1, <<(r * LimbBase + a[i]) \div k>> \o q, (r * LimbBase + a[i]) % k)

BDivS(a, k) == BDivSFrom(a, k, Len(a), <<>>, 0)

RECURSIVE Zeros(_)
Zeros(n) == IF n = 0 THEN <<>> ELSE <<0>> \o Zeros(n - 1)

BShl(a, k) ==
  IF a = <<>> THEN <<>>
  ELSE Zeros(k \div LimbBits) \o BMulS(a, Pow2(k % LimbBits), 0)

BShr(a, k) ==
  IF k \div LimbBits >= Len(a) THEN <<>>
  ELSE BDivS(SubSeq(a, k \div LimbBits + 1, Len(a)), Pow2(k % LimbBits)).q

\* a mod 2^k
BLowBits(a, k) == BSub(a, BShl(BShr(a, k), k))

RECURSIVE BitLenS(_)
BitLenS(n) == IF n = 0 THEN 0 ELSE 1 + BitLenS(n \div 2)

BBitLen(a) ==
  IF a = <<>> THEN 0 ELSE LimbBits * (Len(a) - 1) + BitLenS(a[Len(a)])

RECURSIVE TrailingZerosS(_)
TrailingZerosS(n) == IF n % 2 = 1 THEN 0 ELSE 1 + TrailingZerosS(n \div 2)

\* number of trailing zero bits of a > 0
RECURSIVE BTrailingZeros(_)
BTrailingZeros(a) ==
  IF Head(a) = 0 THEN LimbBits + BTrailingZeros(Tail(a))
  ELSE TrailingZerosS(Head(a))

BIsOdd(a) == a # <<>> /\ Head(a) % 2 = 1

\* the largest digit q in lo..hi with q * d <= x
RECURSIVE DigitSearch(_, _, _, _)
DigitSearch(x, d, lo, hi) ==
  IF lo = hi THEN lo
  ELSE LET mid == (lo + hi + 1) \div 2
       IN  IF BCmp(BMulS(d, mid, 0), x) <= 0
             THEN DigitSearch(x, d, mid, hi)
             ELSE DigitSearch(x, d, lo, mid - 1)

\* long division, one quotient limb per step, limbs i .. 1 of n still to bring down
RECURSIVE BDivLimbs(_, _, _, _, _)
BDivLimbs(n, d, i, q, r) ==
  IF i = 0 THEN [q |-> BNorm(q), r |-> r]
  ELSE LET x  == BNorm(<<n[i]>> \o r)
           qd == DigitSearch(x, d, 0, LimbBase - 1)
       IN  BDivLimbs(n, d, i - 1, <<qd>> \o q, BSub(x, BMulS(d, qd, 0)))

BDivMod(n, d) ==
  IF Len(d) = 1
    THEN LET s == BDivS(n, d[1]) IN [q |-> s.q, r |-> BFromInt(s.r)]
    ELSE BDivLimbs(n, d, Len(n), <<>>, <<>>)

\* ------------------------------------------------------------------------
\* Python floats: [m, e] is m * 2^e, m odd of at most MantissaBits bits, or
\* zero.  The form is unique, so equal floats are equal records.
\* ------------------------------------------------------------------------

MantissaBits == 53

FZero == [m |-> <<>>, e |-> 0]

FCanon(m, e) ==
  IF m = <<>> THEN FZero
  ELSE LET tz == BTrailingZeros(m) IN [m |-> BShr(m, tz), e |-> e + tz]

\* m / 2^s rounded to an integer, ties to even
RoundShift(m, s) ==
  IF s = 0 THEN m
  ELSE LET q == BShr(m, s)
           c == BCmp(BLowBits(m, s), BShl(<<1>>, s - 1))
       IN  IF c > 0 \/ (c = 0 /\ BIsOdd(q)) THEN BAdd(q, <<1>>) ELSE q

\* the float nearest to m * 2^e
FRound53(m, e) ==
  LET s == BBitLen(m) - MantissaBits
  IN  IF s <= 0 THEN FCanon(m, e) ELSE FCanon(RoundShift(m, s), e + s)

FMinExp(a, b) == IF a.e < b.e THEN a.e ELSE b.e

\* the mantissa of a at the (smaller) exponent e
FAlign(a, e) == BShl(a.m, a.e - e)

FCmp(a, b) ==
  IF a.m = <<>> \/ b.m = <<>>
    THEN (IF a.m = b.m THEN 0 ELSE IF a.m = <<>> THEN -1 ELSE 1)
    ELSE LET e == FMinExp(a, b) IN BCmp(FAlign(a, e), FAlign(b, e))

FLt(a, b) == FCmp(a, b) < 0

FLe(a, b) == FCmp(a, b) <= 0

FGt(a, b) == FCmp(a, b) > 0

\* a + b
FAdd(a, b) ==
  IF a.m = <<>> THEN b
  ELSE IF b.m = <<>> THEN a
  ELSE LET e == FMinExp(a, b) IN FRound53(BAdd(FAlign(a, e), FAlign(b, e)), e)

\* a - b, for a >= b
FSub(a, b) ==
  IF b.m = <<>> THEN a
  ELSE LET e == FMinExp(a, b) IN FRound53(BSub(FAlign(a, e), FAlign(b, e)), e)

\* a * b
FMul(a, b) == FRound53(BMul(a.m, b.m), a.e + b.e)

\* a / b, for b # 0: the quotient to at least 56 bits, a remainder kept as a
\* sticky bit below them
FDiv(a, b) ==
  IF a.m = <<>> THEN FZero
  ELSE LET need == MantissaBits + 3 + BBitLen(b.m) - BBitLen(a.m)
           k    == IF need > 0 THEN need ELSE 0
           d    == BDivMod(BShl(a.m, k), b.m)
       IN  IF d.r = <<>>
             THEN FRound53(d.q, a.e - b.e - k)
             ELSE FRound53(BAddC(BMulS(d.q, 2, 0), <<>>, 1), a.e - b.e - k - 1)

\* float(n) for an integer n >= 0
FInt(n) == FCanon(BFromInt(n), 0)

\* the float a decimal literal n/d denotes (d a power of ten): 2.95 is FDec(295, 100)
FDec(n, d) == FDiv(FInt(n), FInt(d))

\* x * p rounded to an integer, ties to even, on the exact binary value of x
FScaledInt(x, p) ==
  IF x.m = <<>> THEN <<>>
  ELSE IF x.e >= 0 THEN BShl(BMulS(x.m, p, 0), x.e)
  ELSE RoundShift(BMulS(x.m, p, 0), 0 - x.e)

\* round(x, ndigits) with p = 10^ndigits: the exact value of x is rounded to
\* ndigits decimals, ties to even, and the decimal read back as a float
PyRound(x, p) == FDiv(FRound53(FScaledInt(x, p), 0), FInt(p))

FOne == FInt(1)

\* min(1.0, x)
FMin1(x) == IF FLt(x, FOne) THEN x ELSE FOne

\* ------------------------------------------------------------------------
\* Text: a Python str is a sequence of one-character strings.
\* ------------------------------------------------------------------------

UpperChars == <<"A","B","C","D","E","F","G","H","I","J","K","L","M",
                "N","O","P","Q","R","S","T","U","V","W","X","Y","Z">>

LowerChars == <<"a","b","c","d","e","f","g","h","i","j","k","l","m",
                "n","o","p","q","r","s","t","u","v","w","x","y","z">>

DigitChars == <<"0","1","2","3","4","5","6","7","8","9">>

Range(f) == {f[i] : i \in DOMAIN f}

IndexOf(seqn, c) == CHOOSE i \in DOMAIN seqn : seqn[i] = c

\* str.lower(), character by character
LowerChar(c) ==
  IF c \in Range(UpperChars) THEN LowerChars[IndexOf(UpperChars, c)] ELSE c

Lower(s) == [i \in DOMAIN s |-> LowerChar(s[i])]

IsDigit(c) == c \in Range(DigitChars)

DigitVal(c) == IndexOf(DigitChars, c) - 1

\* \s
IsSpace(c) == c \in {" ", "\t", "\n"}

\* \w
IsWord(c) == c \in Range(UpperChars) \cup Range(LowerChars) \cup Range(DigitChars) \cup {"_"}

\* needle in hay
Contains(hay, needle) ==
  \E i \in 1..(Len(hay) - Len(needle) + 1) :
    SubSeq(hay, i, i + Len(needle) - 1) = needle

\* s[i:].startswith(pre), i one-based
HasPrefix(s, i, pre) ==
  i + Len(pre) - 1 <= Len(s) /\ SubSeq(s, i, i + Len(pre) - 1) = pre

\* str.strip()
RECURSIVE LStrip(_)
LStrip(s) == IF s # <<>> /\ IsSpace(Head(s)) THEN LStrip(Tail(s)) ELSE s

RECURSIVE RStrip(_)
RStrip(s) ==
  IF s # <<>> /\ IsSpace(s[Len(s)]) THEN RStrip(SubSeq(s, 1, Len(s) - 1)) ELSE s

Strip(s) == RStrip(LStrip(s))

\* s.split(','): cur is the piece being read
RECURSIVE SplitFrom(_, _, _)
SplitFrom(s, i, cur) ==
  IF i > Len(s) THEN <<cur>>
  ELSE IF s[i] = "," THEN <<cur>> \o SplitFrom(s, i + 1, <<>>)
  ELSE SplitFrom(s, i + 1, Append(cur, s[i]))

SplitComma(s) == SplitFrom(s, 1, <<>>)

\* ------------------------------------------------------------------------
\* _extract_grams: three patterns (\d+)\s*UNIT TAIL, tried in order.
\* re.search returns the leftmost match; \d+ and \s* are greedy, and giving
\* back a digit or a blank never helps, because what must follow them is
\* neither.  The tail (?:\b|[)\s,]) after a word character succeeds exactly
\* when the text ends or the next character is no word character, and so
\* does \b.
\* ------------------------------------------------------------------------

RECURSIVE DigitRunEnd(_, _)
DigitRunEnd(s, i) ==
  IF i <= Len(s) /\ IsDigit(s[i]) THEN DigitRunEnd(s, i + 1) ELSE i

RECURSIVE SkipSpace(_, _)
SkipSpace(s, i) ==
  IF i <= Len(s) /\ IsSpace(s[i]) THEN SkipSpace(s, i + 1) ELSE i

WordBoundaryAfter(s, p) == p > Len(s) \/ ~IsWord(s[p])

\* the pattern matches with its first digit at i; opt is the optional (?:...)? part
MatchAt(s, i, unit, opt) ==
  /\ i <= Len(s)
  /\ IsDigit(s[i])
  /\ LET k == SkipSpace(s, DigitRunEnd(s, i))
         p == k + Len(unit)
     IN  /\ HasPrefix(s, k, unit)
         /\ \/ opt # <<>> /\ HasPrefix(s, p, opt) /\ WordBoundaryAfter(s, p + Len(opt))
            \/ WordBoundaryAfter(s, p)

\* float(m.group(1)) of the digits s[i .. j-1]
RECURSIVE DigitsNat(_, _, _, _)
DigitsNat(s, i, j, acc) ==
  IF i >= j THEN acc
  ELSE DigitsNat(s, i + 1, j, BAddC(BMulS(acc, 10, 0), <<>>, DigitVal(s[i])))

NoMatch == [none |-> TRUE, grams |-> FZero]

\* re.search(pattern, s): the group of the leftmost match, as a float
Search(s, unit, opt) ==
  LET hits == {i \in 1..Len(s) : MatchAt(s, i, unit, opt)}
  IN  IF hits = {} THEN NoMatch
      ELSE LET i == CHOOSE h \in hits : \A g \in hits : h <= g
           IN  [none |-> FALSE,
                grams |-> FRound53(DigitsNat(s, i, DigitRunEnd(s, i), <<>>), 0)]

TablespoonGrams == 20

\* a variant that tries the ml pattern before the g pattern
ExtractGramsMlFirst(desc) ==
  LET g  == Search(Lower(desc), <<"g">>, <<"r", "a", "m">>)
      ml == Search(Lower(desc), <<"m", "l">>, <<>>)
      el == Search(Lower(desc), <<"e", "l">>, <<>>)
  IN  IF ~ml.none THEN ml
      ELSE IF ~g.none THEN g
      ELSE IF ~el.none THEN [none |-> FALSE, grams |-> FMul(el.grams, FInt(TablespoonGrams))]
      ELSE NoMatch

_extract_grams(desc) ==
  LET g  == Search(Lower(desc), <<"g">>, <<"r", "a", "m">>)
      ml == Search(Lower(desc), <<"m", "l">>, <<>>)
      el == Search(Lower(desc), <<"e", "l">>, <<>>)
  IN  IF ~g.none THEN g
      ELSE IF ~ml.none THEN ml
      ELSE IF ~el.none THEN [none |-> FALSE, grams |-> FMul(el.grams, FInt(TablespoonGrams))]
      ELSE NoMatch

\* ------------------------------------------------------------------------
\* Static tables.  Display names and notes are carried through to the
\* response unchanged and are left out; non-ASCII letters are transliterated.
\* ------------------------------------------------------------------------

\* SUPPLEMENT_NUTRIENTS: (supplement_id, dose_slot) -> <<nutrient key, amount>>, ...
SUPPLEMENT_NUTRIENTS ==
  ( <<8, "morning">> :> << <<"egcg_mg", FInt(300)>>, <<"caffeine_mg", FInt(44)>> >> ) @@
  ( <<8, "evening">> :> << <<"egcg_mg", FInt(150)>>, <<"caffeine_mg", FInt(22)>> >> ) @@
  ( <<4, "noon">>    :> << <<"omega3_epa_dha_mg", FInt(300)>> >> ) @@
  ( <<6, "evening">> :> << <<"zink_mg", FInt(30)>> >> ) @@
  ( <<7, "evening">> :> << <<"selen_ug", FInt(100)>> >> ) @@
  ( <<3, "morning">> :> << <<"curcumin_mg", FInt(250)>>, <<"boswellia_mg", FInt(150)>>,
                           <<"vitamin_d_iu", FInt(400)>> >> ) @@
  ( <<3, "evening">> :> << <<"curcumin_mg", FInt(250)>>, <<"boswellia_mg", FInt(150)>>,
                           <<"vitamin_d_iu", FInt(400)>> >> ) @@
  ( <<9, "noon">>    :> << <<"vitamin_d_iu", FInt(4000)>> >> ) @@
  ( <<5, "evening">> :> << <<"boswellia_mg", FInt(100)>>, <<"monacolin_k_mg", FDec(295, 100)>>,
                           <<"ubiquinol_mg", FInt(100)>> >> ) @@
  ( <<1, "morning">> :> << <<"kuerbiskern_mg", FInt(250)>>, <<"saegpalme_mg", FInt(160)>>,
                           <<"beta_sitosterol_mg", FInt(65)>>, <<"pygeum_mg", FInt(50)>> >> ) @@
  ( <<1, "evening">> :> << <<"kuerbiskern_mg", FInt(250)>>, <<"saegpalme_mg", FInt(160)>>,
                           <<"beta_sitosterol_mg", FInt(65)>>, <<"pygeum_mg", FInt(50)>> >> ) @@
  ( <<2, "morning">> :> << <<"silymarin_mg", FInt(140)>> >> ) @@
  ( <<2, "evening">> :> << <<"silymarin_mg", FInt(140)>> >> )

Band(key, unit, lo, hi) == [key |-> key, unit |-> unit, min |-> lo, max |-> hi]

PROSTATE_SUBSTANCES == <<
  Band("egcg_mg", "mg", FInt(400), FInt(800)),
  Band("lycopin_mg", "mg", FInt(10), FInt(30)),
  Band("zink_mg", "mg", FInt(15), FInt(30)),
  Band("selen_ug", "ug", FInt(100), FInt(200)),
  Band("curcumin_mg", "mg", FInt(500), FInt(1500)),
  Band("boswellia_mg", "mg", FInt(300), FInt(500)),
  Band("omega3_epa_dha_mg", "mg", FInt(1000), FInt(3000)),
  Band("vitamin_d_iu", "IU", FInt(2000), FInt(4000)),
  Band("punicalagin_mg", "mg", FInt(500), FInt(1500)),
  Band("kuerbiskern_mg", "mg", FInt(500), FInt(500)),
  Band("saegpalme_mg", "mg", FInt(160), FInt(320)),
  Band("beta_sitosterol_mg", "mg", FInt(60), FInt(130)),
  Band("pygeum_mg", "mg", FInt(100), FInt(200)),
  Band("silymarin_mg", "mg", FInt(200), FInt(400)),
  Band("caffeine_mg", "mg", FInt(300), FInt(400)) >>

\* a variant with the caffeine band of the cardio note, 150 to 400
CardioSubstancesOfNote == <<
  Band("monacolin_k_mg", "mg", FDec(295, 100), FInt(10)),
  Band("ubiquinol_mg", "mg", FInt(100), FInt(300)),
  Band("omega3_epa_dha_mg", "mg", FInt(1000), FInt(3000)),
  Band("boswellia_mg", "mg", FInt(300), FInt(500)),
  Band("caffeine_mg", "mg", FInt(150), FInt(400)) >>

CARDIO_SUBSTANCES == <<
  Band("monacolin_k_mg", "mg", FDec(295, 100), FInt(10)),
  Band("ubiquinol_mg", "mg", FInt(100), FInt(300)),
  Band("omega3_epa_dha_mg", "mg", FInt(1000), FInt(3000)),
  Band("boswellia_mg", "mg", FInt(300), FInt(500)),
  Band("caffeine_mg", "mg", FInt(300), FInt(400)) >>

\* the supplements table as init_db fills it: id -> name
SupplementNames ==
  <<"Vitals Maennerformel Pro Prostata", "Legalon 140mg", "curcumin-Loges plus Boswellia",
    "Apremia Omega-3", "MiraCHOL 3.0 Gold", "Pure Encapsulations Zink 30",
    "Selamin Selen", "Vitals Gruener Tee-PS">>

\* the substance columns of food_nutrients (init_food_nutrients, migrate_caffeine)
FoodColumns ==
  {"lycopin_mg", "egcg_mg", "omega3_epa_dha_mg", "vitamin_d_iu", "selen_ug", "zink_mg",
   "punicalagin_mg", "curcumin_mg", "boswellia_mg", "caffeine_mg"}

\* a food_nutrients row: the columns not listed in amounts hold their default 0
FoodRow(food_name, keywords, portion_g, amounts) ==
  [food_name |-> food_name, keywords |-> keywords, portion_g |-> portion_g,
   amounts |-> [k \in FoodColumns |-> IF k \in DOMAIN amounts THEN amounts[k] ELSE FZero]]

Food_Lachs ==
  FoodRow("Lachs", <<"l", "a", "c", "h", "s", ",", "s", "a", "l", "m", "o", "n", ",", "l", "a", "c", "h", "s", "p", "u", "f", "f", "e", "r", ",", "l", "a", "c", "h", "s", "f", "i", "l", "e", "t">>, FInt(150),
          [omega3_epa_dha_mg |-> FInt(3000), vitamin_d_iu |-> FInt(750), selen_ug |-> FInt(45)])

Food_Edamame ==
  FoodRow("Edamame", <<"e", "d", "a", "m", "a", "m", "e">>, FInt(100), [zink_mg |-> FDec(14, 10)])

Food_KaffeeSchwarz ==
  FoodRow("Kaffee schwarz", 
          <<"k", "a", "f", "f", "e", "e", " ", "s", "c", "h", "w", "a", "r", "z", ",", "k", "a", "f", "f", "e", "e", ",", "c", "o", "f", "f", "e", "e", ",", "k", "a", "f", "f", "e", "e", "s", "c", "h", "w", "a", "r", "z">>, FInt(200), [caffeine_mg |-> FInt(90)])

Food_KaffeeMitMilch ==
  FoodRow("Kaffee mit Milch", 
          <<"k", "a", "f", "f", "e", "e", " ", "m", "i", "t", " ", "m", "i", "l", "c", "h", ",", "k", "a", "f", "f", "e", "e", " ", "m", "i", "t", " ", "h", "a", "f", "e", "r", "m", "i", "l", "c", "h", ",", "k", "a", "f", "f", "e", "e", " ", "m", "i", "l", "c", "h">>, FInt(200), [caffeine_mg |-> FInt(85)])

\* food_nutrients after init_db, in rowid order (the rows the modelled texts can match)
SeedFoods == <<Food_Lachs, Food_Edamame, Food_KaffeeSchwarz, Food_KaffeeMitMilch>>

\* rows the schema of food_nutrients accepts and the seed does not hold, added
\* to nutrition.db by hand: keywords in mixed case with blanks around them,
\* and a reference portion of 0
Food_Ketchup ==
  FoodRow("Ketchup", <<" ", "K", "E", "T", "C", "H", "U", "P", " ", ",", "T", "o", "m", "a", "t", "e", "n", "m", "a", "r", "k">>, FInt(50),
          [lycopin_mg |-> FInt(17)])

Food_Wasser ==
  FoodRow("Wasser", <<"w", "a", "s", "s", "e", "r">>, FZero, [selen_ug |-> FInt(1)])

\* a second row named "Lachs", with a longer keyword than the seeded row matches
Food_LachsRoh ==
  FoodRow("Lachs", <<"l", "a", "c", "h", "s", "f", "i", "l", "e", "t">>, FInt(100),
          [omega3_epa_dha_mg |-> FInt(1200)])

\* a second row named "Edamame", with the keyword of the seeded row
Food_EdamameTK ==
  FoodRow("Edamame", <<"E", "d", "a", "m", "a", "m", "e">>, FInt(100), [zink_mg |-> FInt(5)])

\* food_nutrients after such an edit
EditedFoodTables == {SeedFoods \o <<Food_Ketchup>>, SeedFoods \o <<Food_Wasser>>}

\* food_nutrients with two rows of one food_name
SameNameFoodTables == {SeedFoods \o <<Food_LachsRoh>>, SeedFoods \o <<Food_EdamameTK>>}

\* ------------------------------------------------------------------------
\* Requests the model issues.
\* ------------------------------------------------------------------------

\* the dates requests name; the meals init_db seeds are dated 2026-02-18 and stay
\* outside every query for these dates, so the tables below hold the other rows
Dates == {"2026-02-19", "2026-02-20"}

Text_LachsEdamame == <<"L", "a", "c", "h", "s", " ", "u", "n", "d", " ", "E", "d", "a", "m", "a", "m", "e", ",", " ", "1", "5", "0", "g">>

Text_Edamame25 == <<"E", "d", "a", "m", "a", "m", "e", " ", "2", "5", "g">>

Text_Lachsfilet == <<"L", "A", "C", "H", "S", "F", "I", "L", "E", "T">>

Text_Kaffee == <<"2", " ", "K", "a", "f", "f", "e", "e", " ", "m", "i", "t", " ", "M", "i", "l", "c", "h">>

Text_Ketchup == <<"k", "e", "t", "c", "h", "u", "p", " ", "2", " ", "E", "L">>

Text_Wasser == <<"W", "a", "s", "s", "e", "r">>

\* every text a meal, a component or a note can hold in the model
Texts == {Text_LachsEdamame, Text_Edamame25, Text_Lachsfilet, Text_Kaffee, Text_Ketchup, Text_Wasser}

\* bodies of POST /api/meals
MealBodies ==
  { [date |-> "2026-02-19", description |-> Text_LachsEdamame, notes |-> <<>>],
    [date |-> "2026-02-19", description |-> Text_Edamame25, notes |-> Text_Lachsfilet],
    [date |-> "2026-02-20", description |-> Text_Kaffee, notes |-> <<>>] }

\* bodies of POST /api/meals/<id>/components
ComponentBodies == { [description |-> Text_Lachsfilet], [description |-> Text_Edamame25] }

\* bodies of POST /api/supplement-intake
IntakeBodies ==
  { [date |-> "2026-02-19", supplement_id |-> 6, dose_slot |-> "evening", taken |-> 1],
    [date |-> "2026-02-19", supplement_id |-> 6, dose_slot |-> "evening", taken |-> 0],
    [date |-> "2026-02-19", supplement_id |-> 5, dose_slot |-> "evening", taken |-> 1] }

MaxMeals == 2

MaxComponents == 1

\* the contents food_nutrients can have
FoodTables == {SeedFoods}

FoodRows == UNION {Range(t) : t \in FoodTables \cup EditedFoodTables \cup SameNameFoodTables}

\* ------------------------------------------------------------------------
\* Matching (prostate_analysis / cardio_analysis, step 2).
\* ------------------------------------------------------------------------

\* a variant that compares the keywords as listed, without lower()
KeywordsAsListed(food) ==
  LET parts == SplitComma(food.keywords)
  IN  [j \in DOMAIN parts |-> Strip(parts[j])]

\* keywords = [kw.strip().lower() for kw in food['keywords'].split(',')]
Keywords(food) ==
  LET parts == SplitComma(food.keywords)
  IN  [j \in DOMAIN parts |-> Lower(Strip(parts[j]))]

\* a variant that takes the longest keyword occurring in desc, not the first listed
MatchedKeywordLenLongest(food, desc) ==
  LET kws  == Keywords(food)
      hits == {j \in DOMAIN kws : Contains(Lower(desc), kws[j])}
  IN  IF hits = {} THEN -1
      ELSE Len(kws[CHOOSE j \in hits : \A h \in hits : Len(kws[j]) >= Len(kws[h])])

\* for kw in keywords: if kw in desc_lower: ... len(kw); break   (-1: no keyword occurs)
MatchedKeywordLen(food, desc) ==
  LET kws  == Keywords(food)
      hits == {j \in DOMAIN kws : Contains(Lower(desc), kws[j])}
  IN  IF hits = {} THEN -1
      ELSE Len(kws[CHOOSE j \in hits : \A h \in hits : j <= h])

\* a variant that falls back to 100 g instead of the row's portion_g
GramsOrHundred(grams, food) == IF grams.none THEN FInt(100) ELSE grams.grams

\* grams = _extract_grams(desc), or food['portion_g'] if None; scale = grams / portion_g
GramsOrPortion(grams, food) == IF grams.none THEN food.portion_g ELSE grams.grams

FoodScale(food, desc) == FDiv(GramsOrPortion(_extract_grams(desc), food), food.portion_g)

\* both depend on the row and the text alone and are computed once
KeywordLenOf == [f \in FoodRows, d \in Texts |-> MatchedKeywordLen(f, d)]

ScaleOf == [f \in FoodRows, d \in Texts |-> FoodScale(f, d)]

RECURSIVE CandidatesOfFood(_, _, _)
CandidatesOfFood(food, all_descs, i) ==
  IF i > Len(all_descs) THEN <<>>
  ELSE (IF KeywordLenOf[food, all_descs[i]] >= 0
          THEN << [i |-> i, food |-> food, kw_len |-> KeywordLenOf[food, all_descs[i]]] >>
          ELSE <<>>)
       \o CandidatesOfFood(food, all_descs, i + 1)

\* for food in food_entries: for i, desc in enumerate(all_descs): ...
RECURSIVE Candidates(_, _)
Candidates(food_entries, all_descs) ==
  IF food_entries = <<>> THEN <<>>
  ELSE CandidatesOfFood(Head(food_entries), all_descs, 1)
       \o Candidates(Tail(food_entries), all_descs)

\* x goes behind every element whose keyword is at least as long
InsertByLen(sorted, x) ==
  LET k == Cardinality({j \in DOMAIN sorted : sorted[j].kw_len >= x.kw_len})
  IN  SubSeq(sorted, 1, k) \o <<x>> \o SubSeq(sorted, k + 1, Len(sorted))

\* a variant that leaves the candidates in generation order
Unsorted(cands) == cands

\* candidates.sort(key=lambda x: -x[2]): stable, longest keyword first
RECURSIVE SortByKwLen(_)
SortByKwLen(cands) ==
  IF cands = <<>> THEN <<>>
  ELSE InsertByLen(SortByKwLen(SubSeq(cands, 1, Len(cands) - 1)), cands[Len(cands)])

\* a variant whose matched_pairs holds the description index alone
RECURSIVE DedupFromByText(_, _, _)
DedupFromByText(cands, j, matched_pairs) ==
  IF j > Len(cands) THEN <<>>
  ELSE IF cands[j].i \in matched_pairs
    THEN DedupFromByText(cands, j + 1, matched_pairs)
    ELSE <<cands[j]>> \o DedupFromByText(cands, j + 1, matched_pairs \cup {cands[j].i})

\* the loop over candidates with matched_pairs: the first of each (i, food_name) stays
RECURSIVE DedupFrom(_, _, _)
DedupFrom(cands, j, matched_pairs) ==
  IF j > Len(cands) THEN <<>>
  ELSE LET pair_key == <<cands[j].i, cands[j].food.food_name>>
       IN  IF pair_key \in matched_pairs
             THEN DedupFrom(cands, j + 1, matched_pairs)
             ELSE <<cands[j]>> \o DedupFrom(cands, j + 1, matched_pairs \cup {pair_key})

Dedup(cands) == DedupFrom(cands, 1, {})

\* ------------------------------------------------------------------------
\* Database tables (rows in rowid order), the last HTTP response and the
\* requests whose handler has read the database but not yet written to it.
\* ------------------------------------------------------------------------

VARIABLES meals, meal_components, supplement_intake, food_nutrients, response,
          supplements, in_flight

vars == <<meals, meal_components, supplement_intake, food_nutrients, response,
          supplements, in_flight>>

\* ------------------------------------------------------------------------
\* Aggregation and evaluation (steps 1 to 3 of both analyses).
\* ------------------------------------------------------------------------

\* SELECT ... FROM supplement_intake si JOIN supplements s ... WHERE si.date = ? AND si.taken = 1
IntakeRows(date) ==
  SelectSeq(supplement_intake,
            LAMBDA r : r.date = date /\ r.taken = 1 /\ r.supplement_id \in DOMAIN SupplementNames)

InNutrientMap(row) == <<row.supplement_id, row.dose_slot>> \in DOMAIN SUPPLEMENT_NUTRIENTS

\* nutrients = SUPPLEMENT_NUTRIENTS[sid][slot], as a sequence of (nutrient_key, amount)
NutrientsOf(row) ==
  IF InNutrientMap(row) THEN SUPPLEMENT_NUTRIENTS[<<row.supplement_id, row.dose_slot>>] ELSE <<>>

HasNutrient(nutrients, key) == \E n \in DOMAIN nutrients : nutrients[n][1] = key

\* for nutrient_key, amount in nutrients.items(): supp_totals[nutrient_key] += amount
RECURSIVE AddNutrients(_, _, _, _)
AddNutrients(acc, nutrients, n, key) ==
  IF n > Len(nutrients) THEN acc
  ELSE AddNutrients(IF nutrients[n][1] = key THEN FAdd(acc, nutrients[n][2]) ELSE acc,
                    nutrients, n + 1, key)

\* supp_totals[key] after the loop over intake_rows
RECURSIVE SuppTotalFrom(_, _, _, _)
SuppTotalFrom(rows, j, key, acc) ==
  IF j > Len(rows) THEN acc
  ELSE SuppTotalFrom(rows, j + 1, key, AddNutrients(acc, NutrientsOf(rows[j]), 1, key))

SuppTotal(rows, key) == SuppTotalFrom(rows, 1, key, FZero)

SlotLabel(slot) ==
  CASE slot = "morning" -> "morgens"
    [] slot = "noon"    -> "mittags"
    [] slot = "evening" -> "abends"
    [] OTHER            -> slot

\* a variant whose order depends on what was answered before: the texts come
\* in reverse when the last response was an analysis
AllDescsUnstable(date) ==
  LET ms == SelectSeq(meals, LAMBDA m : m.date = date)
      ds == [k \in DOMAIN ms |-> ms[k].description]
  IN  IF response.route \in {"prostate_analysis", "cardio_analysis"}
        THEN [k \in DOMAIN ds |-> ds[Len(ds) + 1 - k]]
        ELSE ds

\* all_descs: meal descriptions, component descriptions, non-empty meal notes
AllDescs(date) ==
  LET ms == SelectSeq(meals, LAMBDA m : m.date = date)
      cs == SelectSeq(meal_components,
                      LAMBDA c : \E k \in DOMAIN meals : meals[k].id = c.meal_id /\ meals[k].date = date)
      ns == SelectSeq(ms, LAMBDA m : m.notes # <<>>)
  IN  [k \in DOMAIN ms |-> ms[k].description]
      \o [k \in DOMAIN cs |-> cs[k].description]
      \o [k \in DOMAIN ns |-> ns[k].notes]

\* food[key] if key in food.keys() else 0
FoodAmount(food, key) == IF key \in FoodColumns THEN food.amounts[key] ELSE FZero

\* a variant that forgets the scale
CandidateValUnscaled(c, all_descs, key) == FoodAmount(c.food, key)

\* val = (food[key] ...) * scale for one candidate
CandidateVal(c, all_descs, key) == FMul(FoodAmount(c.food, key), ScaleOf[c.food, all_descs[c.i]])

\* if val > 0: food_totals[key] += val
AddIfPositive(acc, val) == IF FGt(val, FZero) THEN FAdd(acc, val) ELSE acc

\* food_totals[key] after the loop over the deduplicated candidates
RECURSIVE FoodTotalFrom(_, _, _, _, _)
FoodTotalFrom(kept, all_descs, j, key, acc) ==
  IF j > Len(kept) THEN acc
  ELSE FoodTotalFrom(kept, all_descs, j + 1, key,
                     AddIfPositive(acc, CandidateVal(kept[j], all_descs, key)))

FoodTotal(kept, all_descs, key) == FoodTotalFrom(kept, all_descs, 1, key, FZero)

\* the supplement part of sources: one label per taken dose whose nutrients hold the key
RECURSIVE SuppSources(_, _, _)
SuppSources(rows, j, key) ==
  IF j > Len(rows) THEN <<>>
  ELSE (IF HasNutrient(NutrientsOf(rows[j]), key)
          THEN << <<"supplement", SupplementNames[rows[j].supplement_id], SlotLabel(rows[j].dose_slot)>> >>
          ELSE <<>>)
       \o SuppSources(rows, j + 1, key)

\* sources.append(f"{desc.strip()} (~{round(scaled, 1)}{s['unit']})") if scaled > 0
FoodSource(desc, scaled, unit) ==
  IF FGt(scaled, FZero) THEN << <<"food", Strip(desc), PyRound(scaled, 10), unit>> >> ELSE <<>>

\* the food part of sources: description and scaled amount of each contributing match
RECURSIVE FoodSources(_, _, _, _, _)
FoodSources(kept, all_descs, j, key, unit) ==
  IF j > Len(kept) THEN <<>>
  ELSE (IF FGt(FoodAmount(kept[j].food, key), FZero)
          THEN FoodSource(all_descs[kept[j].i], CandidateVal(kept[j], all_descs, key), unit)
          ELSE <<>>)
       \o FoodSources(kept, all_descs, j + 1, key, unit)

\* a variant that treats total == max as above the band
StatusMaxExclusive(total, s) ==
  IF FLe(total, FZero) THEN "none"
  ELSE IF FLt(total, s.min) THEN "low"
  ELSE IF FLe(s.max, total) THEN "high"
  ELSE "optimal"

\* a variant that answers "none" below 0 only
StatusNoneBelowZero(total, s) ==
  IF FLt(total, FZero) THEN "none"
  ELSE IF FLt(total, s.min) THEN "low"
  ELSE IF FGt(total, s.max) THEN "high"
  ELSE "optimal"

Status(total, s) ==
  IF FLe(total, FZero) THEN "none"
  ELSE IF FLt(total, s.min) THEN "low"
  ELSE IF FGt(total, s.max) THEN "high"
  ELSE "optimal"

\* a variant without min(1.0, ...)
SeverityUncapped(total, s) ==
  IF FLe(total, FZero) THEN FZero
  ELSE IF FLt(total, s.min) THEN FDiv(FSub(s.min, total), s.min)
  ELSE IF FGt(total, s.max) THEN FDiv(FSub(total, s.max), s.max)
  ELSE FZero

\* a variant that divides the shortfall by max
SeverityLowByMax(total, s) ==
  IF FLe(total, FZero) THEN FZero
  ELSE IF FLt(total, s.min) THEN FMin1(FDiv(FSub(s.min, total), s.max))
  ELSE IF FGt(total, s.max) THEN FMin1(FDiv(FSub(total, s.max), s.max))
  ELSE FZero

\* a variant that divides the excess by the total
SeverityByTotal(total, s) ==
  IF FLe(total, FZero) THEN FZero
  ELSE IF FLt(total, s.min) THEN FMin1(FDiv(FSub(s.min, total), s.min))
  ELSE IF FGt(total, s.max) THEN FMin1(FDiv(FSub(total, s.max), total))
  ELSE FZero

\* severity before round(severity, 3)
Severity(total, s) ==
  IF FLe(total, FZero) THEN FZero
  ELSE IF FLt(total, s.min)
    THEN (IF FGt(s.min, FZero) THEN FMin1(FDiv(FSub(s.min, total), s.min)) ELSE FZero)
  ELSE IF FGt(total, s.max)
    THEN (IF FGt(s.max, FZero) THEN FMin1(FDiv(FSub(total, s.max), s.max)) ELSE FZero)
  ELSE FZero

\* a variant that reports the food sum unrounded
FromFoodUnrounded(food_total) == food_total

\* a variant that leaves the food part out of the total
TotalOfSupplements(from_supp, from_food) == PyRound(from_supp, 10)

\* from_supp, from_food and total of one substance
FromSupp(supp_total) == PyRound(supp_total, 10)

FromFood(food_total) == PyRound(food_total, 10)

Total(from_supp, from_food) == PyRound(FAdd(from_supp, from_food), 10)

\* substances.append({...})
Substance(s, from_supp, from_food, total, sources) ==
  [key |-> s.key, unit |-> s.unit, optimal_min |-> s.min, optimal_max |-> s.max,
   from_supplements |-> from_supp, from_food |-> from_food, total |-> total,
   sources |-> sources,
   status |-> Status(total, s),
   severity |-> PyRound(Severity(total, s), 1000)]

SubstanceOf(s, from_supp, from_food, sources) ==
  Substance(s, from_supp, from_food, Total(from_supp, from_food), sources)

\* one pass of the loop "3. Build response"
Entry(s, rows, kept, all_descs) ==
  SubstanceOf(s, FromSupp(SuppTotal(rows, s.key)), FromFood(FoodTotal(kept, all_descs, s.key)),
              SuppSources(rows, 1, s.key) \o FoodSources(kept, all_descs, 1, s.key, s.unit))

Substances(SUBSTANCES, rows, kept, all_descs) ==
  [k \in DOMAIN SUBSTANCES |-> Entry(SUBSTANCES[k], rows, kept, all_descs)]

\* steps 2 and 3 over the descriptions of the day
ReportOf(date, SUBSTANCES, rows, all_descs) ==
  [date |-> date,
   substances |-> Substances(SUBSTANCES, rows,
                             Dedup(SortByKwLen(Candidates(food_nutrients, all_descs))), all_descs)]

\* the body both handlers share, for their list of substances
Report(date, SUBSTANCES) == ReportOf(date, SUBSTANCES, IntakeRows(date), AllDescs(date))

\* ------------------------------------------------------------------------
\* Handlers.
\* ------------------------------------------------------------------------

NoResponse == [route |-> "none"]

\* a row of supplements: the columns ensure_supplement_records selects
Supplement(id, active, dose_morning, dose_noon, dose_evening) ==
  [id |-> id, active |-> active, dose_morning |-> dose_morning,
   dose_noon |-> dose_noon, dose_evening |-> dose_evening]

\* the table init_db leaves in a new database: eight active supplements with
\* the column default 1 in every slot, and 2 + 1 capsules set for supplement 8
SeedSupplements ==
  << Supplement(1, 1, 1, 1, 1), Supplement(2, 1, 1, 1, 1), Supplement(3, 1, 1, 1, 1),
     Supplement(4, 1, 1, 1, 1), Supplement(5, 1, 1, 1, 1), Supplement(6, 1, 1, 1, 1),
     Supplement(7, 1, 1, 1, 1), Supplement(8, 1, 2, 1, 1) >>

\* a table as it is kept in a database file that init_db finds filled: the
\* slots SUPPLEMENT_NUTRIENTS names, supplement 9 added, supplement 2 withdrawn
MaintainedSupplements ==
  << Supplement(1, 1, 1, 0, 1), Supplement(2, 0, 1, 0, 1), Supplement(3, 1, 1, 0, 1),
     Supplement(4, 1, 0, 1, 0), Supplement(5, 1, 0, 0, 1), Supplement(6, 1, 0, 0, 1),
     Supplement(7, 1, 0, 0, 1), Supplement(8, 1, 2, 0, 1), Supplement(9, 1, 0, 1, 0) >>

\* the requests served at the same time, each by a thread with its own
\* connection; none has read anything yet
Workers == {1, 2}

Idle == [at |-> "idle"]

NoRequests == [w \in Workers |-> Idle]

Init ==
  /\ meals = <<>>
  /\ meal_components = <<>>
  /\ supplement_intake = <<>>
  /\ supplements = SeedSupplements
  /\ in_flight = NoRequests
  /\ food_nutrients \in FoodTables
  /\ response = NoResponse

\* POST /api/meals
create_meal(d) ==
  /\ Len(meals) < MaxMeals
  /\ meals' = Append(meals, [id |-> Len(meals) + 1, date |-> d.date,
                             description |-> d.description, notes |-> d.notes])
  /\ response' = [route |-> "create_meal", code |-> 201, id |-> Len(meals) + 1]
  /\ UNCHANGED <<meal_components, supplement_intake, food_nutrients, supplements, in_flight>>

\* POST /api/meals/<meal_id>/components; meal_id REFERENCES meals(id)
create_component(meal_id, d) ==
  /\ Len(meal_components) < MaxComponents
  /\ IF \E k \in DOMAIN meals : meals[k].id = meal_id
       THEN /\ meal_components' = Append(meal_components,
                                         [id |-> Len(meal_components) + 1, meal_id |-> meal_id,
                                          description |-> d.description])
            /\ response' = [route |-> "create_component", code |-> 201,
                            id |-> Len(meal_components) + 1]
       ELSE \* the foreign key rejects the INSERT
            /\ meal_components' = meal_components
            /\ response' = [route |-> "create_component", code |-> 500]
  /\ UNCHANGED <<meals, supplement_intake, food_nutrients, supplements, in_flight>>

\* dose_slot = d.get('dose_slot', 'morning')
DoseSlotOf(d) == IF "dose_slot" \in DOMAIN d THEN d.dose_slot ELSE "morning"

\* taken = d.get('taken', 0)
TakenOf(d) == IF "taken" \in DOMAIN d THEN d.taken ELSE 0

\* the NULL of the column dose_slot, which the schema leaves nullable (line 77):
\* what a body with "dose_slot": null stores
NullSlot == "NULL"

\* existing = SELECT ... WHERE date=? AND supplement_id=? AND dose_slot=?
\* (dose_slot = NULL is true of no row)
SameDose(r, d) ==
  /\ r.date = d.date
  /\ r.supplement_id = d.supplement_id
  /\ DoseSlotOf(d) # NullSlot
  /\ r.dose_slot = DoseSlotOf(d)

\* a variant that always inserts a new record
InsertIntake(d) ==
  /\ supplement_intake' =
       Append(supplement_intake,
              [date |-> d.date, supplement_id |-> d.supplement_id,
               dose_slot |-> DoseSlotOf(d), taken |-> TakenOf(d)])
  /\ response' = [route |-> "post_supplement_intake", status |-> "ok"]
  /\ UNCHANGED <<meals, meal_components, food_nutrients, supplements, in_flight>>

\* POST /api/supplement-intake
post_supplement_intake(d) ==
  /\ IF \E k \in DOMAIN supplement_intake : SameDose(supplement_intake[k], d)
       THEN supplement_intake' =
              [k \in DOMAIN supplement_intake |->
                 IF SameDose(supplement_intake[k], d)
                   THEN [supplement_intake[k] EXCEPT !.taken = TakenOf(d)]
                   ELSE supplement_intake[k]]
       ELSE supplement_intake' =
              Append(supplement_intake,
                     [date |-> d.date, supplement_id |-> d.supplement_id,
                      dose_slot |-> DoseSlotOf(d), taken |-> TakenOf(d)])
  /\ response' = [route |-> "post_supplement_intake", status |-> "ok"]
  /\ UNCHANGED <<meals, meal_components, food_nutrients, supplements, in_flight>>

\* scale = grams / food['portion_g'] raises ZeroDivisionError for a kept
\* candidate whose row has portion_g = 0, whatever grams is
DivisionByZero(kept) == \E j \in DOMAIN kept : kept[j].food.portion_g = FZero

\* what the client receives: the report, or the 500 of an unhandled exception
AnalysisResponse(route, date, SUBSTANCES) ==
  IF DivisionByZero(Dedup(SortByKwLen(Candidates(food_nutrients, AllDescs(date)))))
    THEN [route |-> route, code |-> 500, error |-> "ZeroDivisionError"]
    ELSE [route |-> route, body |-> Report(date, SUBSTANCES)]

\* a variant that files an untaken record for the date while it answers
AnalysisThatRecords(date) ==
  /\ response' = AnalysisResponse("prostate_analysis", date, PROSTATE_SUBSTANCES)
  /\ supplement_intake' =
       Append(supplement_intake,
              [date |-> date, supplement_id |-> 1, dose_slot |-> "morning", taken |-> 0])
  /\ UNCHANGED <<meals, meal_components, food_nutrients, supplements, in_flight>>

\* GET /api/prostate-analysis/<date>
prostate_analysis(date) ==
  /\ response' = AnalysisResponse("prostate_analysis", date, PROSTATE_SUBSTANCES)
  /\ UNCHANGED <<meals, meal_components, supplement_intake, food_nutrients, supplements, in_flight>>

\* GET /api/cardio-analysis/<date>
cardio_analysis(date) ==
  /\ response' = AnalysisResponse("cardio_analysis", date, CARDIO_SUBSTANCES)
  /\ UNCHANGED <<meals, meal_components, supplement_intake, food_nutrients, supplements, in_flight>>

Next ==
  \/ \E d \in MealBodies : create_meal(d)
  \/ \E meal_id \in 1..MaxMeals, d \in ComponentBodies : create_component(meal_id, d)
  \/ \E d \in IntakeBodies : post_supplement_intake(d)
  \/ \E date \in Dates : prostate_analysis(date)
  \/ \E date \in Dates : cardio_analysis(date)

Spec == Init /\ [][Next]_vars

\* ------------------------------------------------------------------------
\* The evaluation of one substance (step 3, lines 635-661) on its own: a band
\* of the two tables and a total k * step tenths, as round(..., 1) returns it.
\* ------------------------------------------------------------------------

EvalBands == Range(PROSTATE_SUBSTANCES) \cup Range(CARDIO_SUBSTANCES)

\* distances between evaluated totals, in tenths
EvalSteps == {1, 10, 100, 1000}

MaxEvalSteps == 90

\* the entry the loop builds for substance s when the supplements of the day
\* deliver k * step tenths and no food matches
Evaluation(s, step, k) ==
  [route |-> "evaluate", s |-> s, step |-> step, k |-> k,
   entry |-> SubstanceOf(s, FDec(k * step, 10), FZero, <<>>)]

InitEval ==
  /\ meals = <<>>
  /\ meal_components = <<>>
  /\ supplement_intake = <<>>
  /\ supplements = SeedSupplements
  /\ in_flight = NoRequests
  /\ food_nutrients \in FoodTables
  /\ response \in {Evaluation(s, step, 0) : s \in EvalBands, step \in EvalSteps}

raise_total ==
  /\ response.k < MaxEvalSteps
  /\ response' = Evaluation(response.s, response.step, response.k + 1)
  /\ UNCHANGED <<meals, meal_components, supplement_intake, food_nutrients, supplements, in_flight>>

lower_total ==
  /\ response.k > 0
  /\ response' = Evaluation(response.s, response.step, response.k - 1)
  /\ UNCHANGED <<meals, meal_components, supplement_intake, food_nutrients, supplements, in_flight>>

NextEval == raise_total \/ lower_total

SpecEval == InitEval /\ [][NextEval]_vars

\* ------------------------------------------------------------------------
\* Properties of the reports. While response holds a report the tables are
\* the ones it was computed from: every handler replaces response.
\* ------------------------------------------------------------------------

IsReport ==
  /\ response.route \in {"prostate_analysis", "cardio_analysis"}
  /\ "body" \in DOMAIN response

ReportEntries == IF IsReport THEN Range(response.body.substances) ELSE {}

ReportRows == IntakeRows(response.body.date)

ReportDescs == AllDescs(response.body.date)

ReportKept == Dedup(SortByKwLen(Candidates(food_nutrients, ReportDescs)))

\* the unrounded sums behind the entry of key
ReportSuppTotal(key) == SuppTotal(ReportRows, key)

ReportFoodTotal(key) == FoodTotal(ReportKept, ReportDescs, key)

RECURSIVE BToInt(_)
BToInt(a) == IF a = <<>> THEN 0 ELSE Head(a) + LimbBase * BToInt(Tail(a))

\* x in tenths, as an integer
Tenths(x) == BToInt(FScaledInt(x, 10))

\* C1: in every entry of a report of prostate_analysis or cardio_analysis the
\* severity lies in [0, 1] and the status is "none" exactly when the total is
\* <= 0; the subtractions behind the severity never go below zero, as "low"
\* is reported only under the band and "high" only above it.
C1_SeverityInUnitIntervalNoneIffZero ==
  \A e \in ReportEntries :
    /\ FLe(FZero, e.severity)
    /\ FLe(e.severity, FOne)
    /\ (e.status = "none") <=> FLe(e.total, FZero)
    /\ (e.status = "low") => FLt(e.total, e.optimal_min)
    /\ (e.status = "high") => FGt(e.total, e.optimal_max)
    /\ e.status \in {"none", "low", "high", "optimal"}

\* a report with an entry without intake, one far above its band (severity 1)
\* and one below its band with a severity strictly between 0 and 1
C1_Witness ==
  \E e1, e2, e3 \in ReportEntries :
    /\ e1.status = "none" /\ e1.severity = FZero
    /\ e2.status = "high" /\ e2.severity = FOne
    /\ e3.status = "low" /\ FLt(FZero, e3.severity) /\ FLt(e3.severity, FOne)

\* C2: a reported total equal to min or to max, and any total > 0 within
\* [min, max], has status "optimal" and severity 0.
C2_BandInclusive ==
  \A e \in ReportEntries :
    (FGt(e.total, FZero) /\ FLe(e.optimal_min, e.total) /\ FLe(e.total, e.optimal_max))
      => (e.status = "optimal" /\ e.severity = FZero)

\* one report with a total exactly at min (ubiquinol 100) and one exactly at
\* max (omega-3 3000), both optimal
C2_Witness ==
  \E e1, e2 \in ReportEntries :
    /\ e1.total = e1.optimal_min /\ FLt(e1.optimal_min, e1.optimal_max)
    /\ e1.status = "optimal"
    /\ e2.total = e2.optimal_max /\ FLt(e2.optimal_min, e2.optimal_max)
    /\ e2.status = "optimal"

\* C5: in every entry total = round(from_supplements + from_food, 1), on the
\* two values reported in the same entry.
C5_TotalIsRoundedSumOfReportedParts ==
  \A e \in ReportEntries :
    e.total = PyRound(FAdd(e.from_supplements, e.from_food), 10)

\* an entry that has both a supplement part and a food part
C5_Witness ==
  \E e \in ReportEntries :
    /\ FGt(e.from_supplements, FZero)
    /\ FGt(e.from_food, FZero)
    /\ FGt(e.total, e.from_supplements)

\* C6 as stated: the reported total is the unrounded supplement sum plus the
\* unrounded food sum, rounded once to one decimal.
C6_TotalIsSingleRounding ==
  \A e \in ReportEntries :
    e.total = PyRound(FAdd(ReportSuppTotal(e.key), ReportFoodTotal(e.key)), 10)

\* C6: the sums are accumulated unrounded; from_supplements and from_food are
\* each rounded to one decimal, and the total is the rounded sum of these two
\* rounded values, at most one tenth away from the single rounding of the
\* unrounded sum.
C6_TotalIsRoundingOfRoundedParts ==
  \A e \in ReportEntries :
    /\ e.from_supplements = PyRound(ReportSuppTotal(e.key), 10)
    /\ e.from_food = PyRound(ReportFoodTotal(e.key), 10)
    /\ e.total = PyRound(FAdd(PyRound(ReportSuppTotal(e.key), 10),
                              PyRound(ReportFoodTotal(e.key), 10)), 10)
    /\ Tenths(e.total)
         - Tenths(PyRound(FAdd(ReportSuppTotal(e.key), ReportFoodTotal(e.key)), 10))
       \in {-1, 0, 1}

\* zinc 30 mg from the evening dose and 0.35 mg from "Edamame 25g": reported
\* 30.3, where rounding the unrounded sum once gives 30.4
C6_Witness ==
  \E e \in ReportEntries :
    /\ e.key = "zink_mg"
    /\ e.from_supplements = FInt(30)
    /\ e.from_food = FDec(3, 10)
    /\ e.total = FDec(303, 10)
    /\ PyRound(FAdd(ReportSuppTotal(e.key), ReportFoodTotal(e.key)), 10) = FDec(304, 10)

\* ------------------------------------------------------------------------
\* Properties of the evaluation of one substance.
\* ------------------------------------------------------------------------

IsEvaluation == response.route = "evaluate"

\* the evaluated total in tenths
EvalTenths == IF IsEvaluation THEN response.step * response.k ELSE 0

IsWhole(x) == x.m = <<>> \/ x.e >= 0

\* the integer a whole float holds
WholeOf(x) == IF x.m = <<>> THEN 0 ELSE BToInt(BShl(x.m, x.e))

\* the floats q/1000 nearest to the real number num/den; both neighbours when
\* num/den lies exactly halfway between them
NearestThousandths(num, den) ==
  LET q == (1000 * num) \div den
      r == (1000 * num) % den
  IN  IF 2 * r < den THEN {FDec(q, 1000)}
      ELSE IF 2 * r > den THEN {FDec(q + 1, 1000)}
      ELSE {FDec(q, 1000), FDec(q + 1, 1000)}

\* C3: for 0 < total < min the status is "low" and the severity is
\* round(min(1, (min - total) / min), 3); for total > max the status is "high"
\* and the severity is round(min(1, (total - max) / max), 3). For a band with
\* whole bounds the severity is the three-decimal rounding of the real quotient.
\* With min = 400, max = 800 and total = 300 the entry is "low" with 0.25.
C3_LowHighSeverity ==
  IsEvaluation =>
    LET e == response.entry
        n == EvalTenths
    IN  /\ (FGt(e.total, FZero) /\ FLt(e.total, e.optimal_min)) =>
             /\ e.status = "low"
             /\ e.severity = PyRound(FMin1(FDiv(FSub(e.optimal_min, e.total), e.optimal_min)), 1000)
             /\ IsWhole(e.optimal_min) =>
                  e.severity \in NearestThousandths(10 * WholeOf(e.optimal_min) - n,
                                                    10 * WholeOf(e.optimal_min))
        /\ FGt(e.total, e.optimal_max) =>
             /\ e.status = "high"
             /\ e.severity = PyRound(FMin1(FDiv(FSub(e.total, e.optimal_max), e.optimal_max)), 1000)
             /\ IsWhole(e.optimal_max) =>
                  IF n >= 20 * WholeOf(e.optimal_max)
                    THEN e.severity = FOne
                    ELSE e.severity \in NearestThousandths(n - 10 * WholeOf(e.optimal_max),
                                                           10 * WholeOf(e.optimal_max))
        /\ (e.optimal_min = FInt(400) /\ e.optimal_max = FInt(800) /\ e.total = FInt(300)) =>
             (e.status = "low" /\ e.severity = FDec(25, 100))

\* EGCG (band 400 to 800) evaluated at a total of 300
C3_Witness ==
  /\ IsEvaluation
  /\ response.entry.key = "egcg_mg"
  /\ response.entry.optimal_min = FInt(400)
  /\ response.entry.optimal_max = FInt(800)
  /\ response.entry.total = FInt(300)
  /\ response.entry.status = "low"
  /\ response.entry.severity = FDec(25, 100)

\* C4 as stated: above the band the severity never decreases as the total
\* grows and is 1 from 2 * max on; below the band it never decreases as the
\* total falls from min to 0, and it is 1 at total 0.
C4_MonotoneAndOneAtZero ==
  /\ [][(IsEvaluation /\ response'.route = "evaluate") =>
          LET e == response.entry
              f == response'.entry
          IN  /\ (FLe(e.optimal_max, e.total) /\ FLe(e.total, f.total))
                   => FLe(e.severity, f.severity)
              /\ (FLe(f.total, e.total) /\ FLe(e.total, e.optimal_min))
                   => FLe(e.severity, f.severity)]_vars
  /\ [](IsEvaluation =>
          /\ FLe(FAdd(response.entry.optimal_max, response.entry.optimal_max), response.entry.total)
               => response.entry.severity = FOne
          /\ (response.entry.total = FZero) => response.entry.severity = FOne)

\* C4: above the band the severity never decreases as the total grows and is 1
\* from 2 * max on; below the band it never decreases as the total falls
\* while the total stays above 0; at total 0 the status is "none" and the
\* severity is 0, not 1.
C4_MonotoneSaturatingZeroAtNone ==
  /\ [][(IsEvaluation /\ response'.route = "evaluate") =>
          LET e == response.entry
              f == response'.entry
          IN  /\ (FLe(e.optimal_max, e.total) /\ FLe(e.total, f.total))
                   => FLe(e.severity, f.severity)
              /\ (FLt(FZero, f.total) /\ FLe(f.total, e.total) /\ FLe(e.total, e.optimal_min))
                   => FLe(e.severity, f.severity)]_vars
  /\ [](IsEvaluation =>
          /\ FLe(FAdd(response.entry.optimal_max, response.entry.optimal_max), response.entry.total)
               => response.entry.severity = FOne
          /\ (response.entry.total = FZero)
               => (response.entry.status = "none" /\ response.entry.severity = FZero))

\* a total of exactly 2 * max, evaluated "high" with severity 1
C4_Witness ==
  /\ IsEvaluation
  /\ response.entry.total = FAdd(response.entry.optimal_max, response.entry.optimal_max)
  /\ response.entry.status = "high"
  /\ response.entry.severity = FOne

\* ------------------------------------------------------------------------
\* Properties of the food matching behind a report.
\* ------------------------------------------------------------------------

KeywordOccurs(food, desc, n) == Contains(Lower(desc), Keywords(food)[n])

Matches(food, desc) == \E n \in DOMAIN Keywords(food) : KeywordOccurs(food, desc, n)

\* the first keyword, in the listed order, that occurs in desc
FirstKeyword(food, desc) ==
  Keywords(food)[CHOOSE n \in DOMAIN Keywords(food) :
                   /\ KeywordOccurs(food, desc, n)
                   /\ \A h \in 1..(n - 1) : ~KeywordOccurs(food, desc, h)]

\* the (food row, text source) pairs in which a keyword of the food occurs
MatchingPairs ==
  {p \in (DOMAIN food_nutrients) \X (DOMAIN ReportDescs) :
     Matches(food_nutrients[p[1]], ReportDescs[p[2]])}

ReportCandidates == Candidates(food_nutrients, ReportDescs)

\* the positions of list at which the candidate of row f and text i stands
PositionsOf(list, f, i) ==
  {j \in DOMAIN list : list[j].food = food_nutrients[f] /\ list[j].i = i}

FoodSourceCount(e) == Cardinality({n \in DOMAIN e.sources : e.sources[n][1] = "food"})

EntryOf(key) == CHOOSE e \in ReportEntries : e.key = key

HasEntry(key) == \E e \in ReportEntries : e.key = key

\* amount * (grams / portion), grams read from the text or else the portion
ExpectedVal(food, desc, key) ==
  IF _extract_grams(desc).none
    THEN FMul(FoodAmount(food, key), FDiv(food.portion_g, food.portion_g))
    ELSE FMul(FoodAmount(food, key), FDiv(_extract_grams(desc).grams, food.portion_g))

RECURSIVE ExpectedSum(_, _, _, _)
ExpectedSum(kept, j, key, acc) ==
  IF j > Len(kept) THEN acc
  ELSE ExpectedSum(kept, j + 1, key,
                   FAdd(acc, ExpectedVal(kept[j].food, ReportDescs[kept[j].i], key)))

\* the sum of the plain per-portion amounts of the kept candidates
RECURSIVE PlainSum(_, _, _, _)
PlainSum(kept, j, key, acc) ==
  IF j > Len(kept) THEN acc
  ELSE PlainSum(kept, j + 1, key, FAdd(acc, FoodAmount(kept[j].food, key)))

\* C7: each (food row, text source) pair yields one candidate when a keyword
\* of the food occurs in the text and none otherwise, carrying the length of
\* the first listed keyword that occurs; the deduplicated list holds each
\* (text index, food name) pair at most once, and an entry has at most one
\* food source per such pair. "Lachs und Edamame, 150g" alone gives omega-3
\* 3000 from Lachs and zinc 2.1 from Edamame, each counted once.
C7_OneCandidatePerFoodAndText ==
  IsReport =>
    /\ \A f \in DOMAIN food_nutrients, i \in DOMAIN ReportDescs :
         /\ Cardinality(PositionsOf(ReportCandidates, f, i))
              = IF Matches(food_nutrients[f], ReportDescs[i]) THEN 1 ELSE 0
         /\ \A j \in PositionsOf(ReportCandidates, f, i) :
              ReportCandidates[j].kw_len = Len(FirstKeyword(food_nutrients[f], ReportDescs[i]))
    /\ \A j, k \in DOMAIN ReportKept :
         (ReportKept[j].i = ReportKept[k].i
            /\ ReportKept[j].food.food_name = ReportKept[k].food.food_name) => j = k
    /\ \A e \in ReportEntries : FoodSourceCount(e) <= Cardinality(MatchingPairs)
    /\ (ReportDescs = <<Text_LachsEdamame>>) =>
         /\ HasEntry("omega3_epa_dha_mg") => EntryOf("omega3_epa_dha_mg").from_food = FInt(3000)
         /\ HasEntry("zink_mg") => EntryOf("zink_mg").from_food = FDec(21, 10)
         /\ \A e \in ReportEntries : FoodSourceCount(e) <= 1

\* "Lachs und Edamame, 150g" next to "LACHSFILET", in which the keywords
\* "lachs" and "lachsfilet" both occur: three kept candidates, omega-3 twice
C7_Witness ==
  /\ IsReport
  /\ ReportDescs = <<Text_LachsEdamame, Text_Lachsfilet>>
  /\ Cardinality({n \in DOMAIN Keywords(Food_Lachs) :
                    KeywordOccurs(Food_Lachs, Text_Lachsfilet, n)}) = 2
  /\ Len(ReportKept) = 3
  /\ HasEntry("omega3_epa_dha_mg")
  /\ EntryOf("omega3_epa_dha_mg").from_food = FInt(6000)
  /\ FoodSourceCount(EntryOf("omega3_epa_dha_mg")) = 2

\* C8: every (food row, text source) pair in which a keyword occurs stays in
\* the deduplicated list exactly once, whatever other foods match the same
\* text and whatever other texts match the same food; an entry lists one food
\* source for each such pair whose scaled amount is positive.
C8_NoSuppressionAcrossFoodsOrTexts ==
  IsReport =>
    /\ \A p \in MatchingPairs : Cardinality(PositionsOf(ReportKept, p[1], p[2])) = 1
    /\ Len(ReportKept) = Cardinality(MatchingPairs)
    /\ \A e \in ReportEntries :
         FoodSourceCount(e)
           = Cardinality({p \in MatchingPairs :
                            FGt(ExpectedVal(food_nutrients[p[1]], ReportDescs[p[2]], e.key), FZero)})

\* Lachs named in three text sources of the day (a description, a component
\* and a note), one of which also names Edamame: omega-3 3 * 3000
C8_Witness ==
  /\ IsReport
  /\ Cardinality({p \in MatchingPairs : food_nutrients[p[1]] = Food_Lachs}) = 3
  /\ \E p, q \in MatchingPairs : p[2] = q[2] /\ p[1] # q[1]
  /\ HasEntry("omega3_epa_dha_mg")
  /\ EntryOf("omega3_epa_dha_mg").from_food = FInt(9000)
  /\ FoodSourceCount(EntryOf("omega3_epa_dha_mg")) = 3

\* C9: the reported from_food of every entry is the one-decimal rounding of
\* the sum, over the deduplicated candidates in their order, of
\* amount * (grams / portion_g), with grams the quantity extracted from the
\* candidate's text or the food's portion_g when there is none.
C9_FromFoodIsSumOfScaledAmounts ==
  \A e \in ReportEntries :
    /\ e.from_food = PyRound(ExpectedSum(ReportKept, 1, e.key, FZero), 10)
    /\ \A j \in DOMAIN ReportKept :
         FGt(ExpectedVal(ReportKept[j].food, ReportDescs[ReportKept[j].i], e.key), FZero) =>
           \E n \in DOMAIN e.sources :
             e.sources[n] = <<"food", Strip(ReportDescs[ReportKept[j].i]),
                              PyRound(ExpectedVal(ReportKept[j].food,
                                                  ReportDescs[ReportKept[j].i], e.key), 10),
                              e.unit>>

\* "Edamame 25g" and "Lachs und Edamame, 150g": zinc 1.4 * 25/100 (listed as
\* 0.3) and 1.4 * 150/100 (listed as 2.1) from the 100 g portion of Edamame
C9_Witness ==
  /\ IsReport
  /\ HasEntry("zink_mg")
  /\ \E j, k \in DOMAIN ReportKept :
       /\ ReportKept[j].food = Food_Edamame /\ ReportDescs[ReportKept[j].i] = Text_Edamame25
       /\ ReportKept[k].food = Food_Edamame /\ ReportDescs[ReportKept[k].i] = Text_LachsEdamame
  /\ \E n, m \in DOMAIN EntryOf("zink_mg").sources :
       /\ EntryOf("zink_mg").sources[n] = <<"food", Text_Edamame25, FDec(3, 10), "mg">>
       /\ EntryOf("zink_mg").sources[m] = <<"food", Text_LachsEdamame, FDec(21, 10), "mg">>
  /\ FGt(EntryOf("zink_mg").from_food, FDec(21, 10))

\* C10: a candidate whose text holds no quantity has scale exactly 1.0 and
\* contributes the food's per-portion amount of every substance unchanged;
\* when no text of the day holds a quantity, from_food is the rounded sum of
\* the plain amounts.
C10_NoQuantityMeansScaleOne ==
  IsReport =>
    /\ \A j \in DOMAIN ReportKept :
         _extract_grams(ReportDescs[ReportKept[j].i]).none =>
           /\ FoodScale(ReportKept[j].food, ReportDescs[ReportKept[j].i]) = FOne
           /\ \A key \in FoodColumns :
                CandidateVal(ReportKept[j], ReportDescs, key) = ReportKept[j].food.amounts[key]
           /\ \A e \in ReportEntries :
                FGt(FoodAmount(ReportKept[j].food, e.key), FZero) =>
                  \E n \in DOMAIN e.sources :
                    e.sources[n] = <<"food", Strip(ReportDescs[ReportKept[j].i]),
                                     PyRound(FoodAmount(ReportKept[j].food, e.key), 10), e.unit>>
    /\ (\A i \in DOMAIN ReportDescs : _extract_grams(ReportDescs[i]).none) =>
         \A e \in ReportEntries :
           e.from_food = PyRound(PlainSum(ReportKept, 1, e.key, FZero), 10)

\* "2 Kaffee mit Milch" holds a number but no quantity: both coffee rows
\* (200 ml portions) contribute their plain caffeine, 90 + 85
C10_Witness ==
  /\ IsReport
  /\ ReportDescs = <<Text_Kaffee>>
  /\ _extract_grams(Text_Kaffee).none
  /\ Len(ReportKept) = 2
  /\ HasEntry("caffeine_mg")
  /\ EntryOf("caffeine_mg").from_food = FInt(175)

\* ------------------------------------------------------------------------
\* The supplement side on its own: intake posts and the two analyses.
\* ------------------------------------------------------------------------

\* bodies of POST /api/supplement-intake, some without dose_slot or taken:
\* two doses of one supplement, an untaken dose, a slot SUPPLEMENT_NUTRIENTS
\* does not list (4, evening), a dose with cardio-only nutrients and another date
IntakeRequests ==
  << [date |-> "2026-02-19", supplement_id |-> 8, taken |-> 1],
     [date |-> "2026-02-19", supplement_id |-> 8],
     [date |-> "2026-02-19", supplement_id |-> 8, dose_slot |-> "evening", taken |-> 1],
     [date |-> "2026-02-19", supplement_id |-> 8, dose_slot |-> "evening", taken |-> 0],
     [date |-> "2026-02-19", supplement_id |-> 4, dose_slot |-> "evening", taken |-> 1],
     [date |-> "2026-02-19", supplement_id |-> 5, dose_slot |-> "evening", taken |-> 1],
     [date |-> "2026-02-20", supplement_id |-> 8, dose_slot |-> "evening", taken |-> 1] >>

MaxIntakeRows == 3

\* a post that updates a record, or inserts one while the table is small
post_intake(d) ==
  /\ \/ \E k \in DOMAIN supplement_intake : SameDose(supplement_intake[k], d)
     \/ Len(supplement_intake) < MaxIntakeRows
  /\ post_supplement_intake(d)

NextIntake ==
  \/ \E n \in DOMAIN IntakeRequests : post_intake(IntakeRequests[n])
  \/ \E date \in Dates : prostate_analysis(date)
  \/ \E date \in Dates : cardio_analysis(date)

SpecIntake == Init /\ [][NextIntake]_vars

\* the amount SUPPLEMENT_NUTRIENTS[sid][slot] holds for key, 0 when it holds none
MappedAmount(sid, slot, key) ==
  IF <<sid, slot>> \in DOMAIN SUPPLEMENT_NUTRIENTS
    THEN LET hits == {n \in DOMAIN SUPPLEMENT_NUTRIENTS[<<sid, slot>>] :
                        SUPPLEMENT_NUTRIENTS[<<sid, slot>>][n][1] = key}
         IN  IF hits = {} THEN FZero
             ELSE SUPPLEMENT_NUTRIENTS[<<sid, slot>>][CHOOSE n \in hits : TRUE][2]
    ELSE FZero

\* the sum of the mapped amounts of the date's taken records, in rowid order
RECURSIVE ExpectedSupp(_, _, _, _)
ExpectedSupp(date, key, k, acc) ==
  IF k > Len(supplement_intake) THEN acc
  ELSE ExpectedSupp(date, key, k + 1,
                    IF supplement_intake[k].date = date /\ supplement_intake[k].taken = 1
                      THEN FAdd(acc, MappedAmount(supplement_intake[k].supplement_id,
                                                  supplement_intake[k].dose_slot, key))
                      ELSE acc)

\* the records of the date that are taken and whose mapping holds key
ContributingRows(date, key) ==
  {k \in DOMAIN supplement_intake :
     /\ supplement_intake[k].date = date
     /\ supplement_intake[k].taken = 1
     /\ FGt(MappedAmount(supplement_intake[k].supplement_id,
                         supplement_intake[k].dose_slot, key), FZero)}

SuppSourceCount(e) == Cardinality({n \in DOMAIN e.sources : e.sources[n][1] = "supplement"})

DoseKey(r) == <<r.date, r.supplement_id, r.dose_slot>>

\* the doses whose record says taken
TakenDoses == {DoseKey(supplement_intake[k]) : k \in {j \in DOMAIN supplement_intake :
                                                       supplement_intake[j].taken = 1}}

RowsOfDose(key) == {k \in DOMAIN supplement_intake : DoseKey(supplement_intake[k]) = key}

PostedDose(d) == <<d.date, d.supplement_id, DoseSlotOf(d)>>

\* C11: the accumulated supplement sum of every entry is the sum of the mapped
\* amounts of the date's records with taken = 1 (reported rounded to one
\* decimal), each such record listed once as a source; untaken records, slots
\* absent from the map and keys outside the domain add nothing. Each dose has
\* at most one record, and a post leaves the dose taken exactly when the
\* posted flag is 1, without touching any other dose.
C11_FromSupplementsIsSumOfTakenDoses ==
  /\ [](/\ \A j, k \in DOMAIN supplement_intake :
             DoseKey(supplement_intake[j]) = DoseKey(supplement_intake[k]) => j = k
        /\ \A e \in ReportEntries :
             /\ ReportSuppTotal(e.key) = ExpectedSupp(response.body.date, e.key, 1, FZero)
             /\ e.from_supplements
                  = PyRound(ExpectedSupp(response.body.date, e.key, 1, FZero), 10)
             /\ SuppSourceCount(e) = Cardinality(ContributingRows(response.body.date, e.key)))
  /\ [][\A n \in DOMAIN IntakeRequests :
          post_supplement_intake(IntakeRequests[n]) =>
            /\ TakenDoses' = (TakenDoses \ {PostedDose(IntakeRequests[n])})
                               \cup (IF TakenOf(IntakeRequests[n]) = 1
                                       THEN {PostedDose(IntakeRequests[n])} ELSE {})
            /\ Cardinality(RowsOfDose(PostedDose(IntakeRequests[n]))') = 1]_vars

\* a prostate report with the morning dose of supplement 8 recorded untaken,
\* its evening dose taken (EGCG 150) and the unmapped evening dose of
\* supplement 4 taken (omega-3 stays 0)
C11_Witness ==
  /\ response.route = "prostate_analysis"
  /\ response.body.date = "2026-02-19"
  /\ \E i, j, k \in DOMAIN supplement_intake :
       /\ DoseKey(supplement_intake[i]) = <<"2026-02-19", 8, "morning">>
       /\ supplement_intake[i].taken = 0
       /\ DoseKey(supplement_intake[j]) = <<"2026-02-19", 8, "evening">>
       /\ supplement_intake[j].taken = 1
       /\ DoseKey(supplement_intake[k]) = <<"2026-02-19", 4, "evening">>
       /\ supplement_intake[k].taken = 1
  /\ EntryOf("egcg_mg").from_supplements = FInt(150)
  /\ EntryOf("omega3_epa_dha_mg").from_supplements = FZero
  /\ SuppSourceCount(EntryOf("egcg_mg")) = 1

\* ------------------------------------------------------------------------
\* The analyses over an edited food table.
\* ------------------------------------------------------------------------

\* bodies of POST /api/meals for the edited tables
FoodMealBodies ==
  { [date |-> "2026-02-19", description |-> Text_Ketchup, notes |-> <<>>],
    [date |-> "2026-02-19", description |-> Text_Wasser, notes |-> <<>>],
    [date |-> "2026-02-19", description |-> Text_Lachsfilet, notes |-> <<>>],
    [date |-> "2026-02-20", description |-> Text_LachsEdamame, notes |-> Text_Ketchup] }

InitFoods ==
  /\ meals = <<>>
  /\ meal_components = <<>>
  /\ supplement_intake = <<>>
  /\ supplements = SeedSupplements
  /\ in_flight = NoRequests
  /\ food_nutrients \in FoodTables \cup EditedFoodTables
  /\ response = NoResponse

NextFoods ==
  \/ \E d \in FoodMealBodies : create_meal(d)
  \/ \E date \in Dates : prostate_analysis(date)
  \/ \E date \in Dates : cardio_analysis(date)

SpecFoods == InitFoods /\ [][NextFoods]_vars

\* the keywords as the row lists them: split at commas, blanks stripped
ListedKeywords(food) ==
  [j \in DOMAIN SplitComma(food.keywords) |-> Strip(SplitComma(food.keywords)[j])]

\* kw stands in text at offset o, letters compared without regard to case
OccursAt(text, kw, o) ==
  \A j \in DOMAIN kw : LowerChar(text[o + j]) = LowerChar(kw[j])

OccursIgnoringCase(text, kw) ==
  \E o \in 0..(Len(text) - Len(kw)) : OccursAt(text, kw, o)

MatchesIgnoringCase(food, text) ==
  \E n \in DOMAIN ListedKeywords(food) : OccursIgnoringCase(text, ListedKeywords(food)[n])

\* C12: a food row is matched to a text source of the date exactly when one of
\* its listed keywords occurs in the text as a substring, letters compared
\* without regard to case on both sides; every substance the row holds is then
\* listed with that text as a food source. "LACHSFILET" matches "lachs".
C12_MatchIsCaseInsensitiveSubstring ==
  IsReport =>
    /\ \A f \in DOMAIN food_nutrients, i \in DOMAIN ReportDescs :
         /\ (PositionsOf(ReportKept, f, i) # {})
              <=> MatchesIgnoringCase(food_nutrients[f], ReportDescs[i])
         /\ \A e \in ReportEntries :
              (/\ MatchesIgnoringCase(food_nutrients[f], ReportDescs[i])
               /\ FGt(ExpectedVal(food_nutrients[f], ReportDescs[i], e.key), FZero))
                => \E n \in DOMAIN e.sources :
                     /\ e.sources[n][1] = "food"
                     /\ e.sources[n][2] = Strip(ReportDescs[i])
                     /\ e.sources[n][3]
                          = PyRound(ExpectedVal(food_nutrients[f], ReportDescs[i], e.key), 10)
    /\ \A i \in DOMAIN ReportDescs :
         (ReportDescs[i] = Text_Lachsfilet /\ HasEntry("omega3_epa_dha_mg")) =>
            \E n \in DOMAIN EntryOf("omega3_epa_dha_mg").sources :
              EntryOf("omega3_epa_dha_mg").sources[n] = <<"food", Text_Lachsfilet, FInt(3000), "mg">>

\* the listed keyword " KETCHUP " found in "ketchup 2 EL" (lycopene 17 * 40/50)
\* next to "LACHSFILET" matched by "lachs"
C12_Witness ==
  /\ IsReport
  /\ response.route = "prostate_analysis"
  /\ Food_Ketchup \in Range(food_nutrients)
  /\ ReportDescs = <<Text_Ketchup, Text_Lachsfilet>>
  /\ Len(ReportKept) = 2
  /\ EntryOf("lycopin_mg").from_food = FDec(136, 10)
  /\ EntryOf("omega3_epa_dha_mg").from_food = FInt(3000)

\* ------------------------------------------------------------------------
\* Properties of the analyses as operations.
\* ------------------------------------------------------------------------

\* the last response is the analysis of this route for this date
AnsweredBefore(route, date) ==
  /\ IsReport
  /\ response.route = route
  /\ response.body.date = date

DescParts ==
  << [text |-> <<"3", "0", "g">>, unit |-> "g", n |-> 30],
     [text |-> <<"5", " ", "g", "r", "a", "m">>, unit |-> "g", n |-> 5],
     [text |-> <<"(", "1", "5", "0", "g", ")">>, unit |-> "g", n |-> 150],
     [text |-> <<"2", "0", "0", "m", "l">>, unit |-> "ml", n |-> 200],
     [text |-> <<"2", " ", "E", "L">>, unit |-> "el", n |-> 2],
     [text |-> <<"3", " ", "e", "l">>, unit |-> "el", n |-> 3],
     [text |-> <<"0", "g">>, unit |-> "g", n |-> 0],
     [text |-> <<"1", "0", "0", " ", "g", "r", "a", "m", "m">>, unit |-> "none", n |-> 0],
     [text |-> <<"1", " ", "G", "l", "a", "s">>, unit |-> "none", n |-> 0] >>

MaxParts == 3

\* the parts joined by ", "
RECURSIVE JoinParts(_)
JoinParts(parts) ==
  IF parts = <<>> THEN <<>>
  ELSE IF Len(parts) = 1 THEN DescParts[parts[1]].text
  ELSE DescParts[parts[1]].text \o <<",", " ">> \o JoinParts(Tail(parts))

\* grams = _extract_grams(desc) for the description made of parts
Extraction(parts) ==
  [route |-> "_extract_grams", parts |-> parts, grams |-> _extract_grams(JoinParts(parts))]

InitGrams ==
  /\ meals = <<>>
  /\ meal_components = <<>>
  /\ supplement_intake = <<>>
  /\ supplements = SeedSupplements
  /\ in_flight = NoRequests
  /\ food_nutrients \in FoodTables
  /\ response \in {Extraction(<<f>>) : f \in DOMAIN DescParts}

\* the description grows by one part
add_part(f) ==
  /\ Len(response.parts) < MaxParts
  /\ response' = Extraction(Append(response.parts, f))
  /\ UNCHANGED <<meals, meal_components, supplement_intake, food_nutrients, supplements, in_flight>>

NextGrams == \E f \in DOMAIN DescParts : add_part(f)

SpecGrams == InitGrams /\ [][NextGrams]_vars

IsExtraction == response.route = "_extract_grams"

\* the positions of the description's parts that spell a quantity in unit
PartsIn(unit) ==
  {k \in DOMAIN response.parts : DescParts[response.parts[k]].unit = unit}

\* the number the first part in unit spells
FirstIn(unit) ==
  DescParts[response.parts[CHOOSE k \in PartsIn(unit) : \A h \in PartsIn(unit) : k <= h]].n

\* C14: wherever the quantities stand in the text, the result is the integer
\* of the first "g" quantity when there is one, else the integer of the first
\* "ml" quantity when there is one, else 20 times the integer of the first "EL"
\* quantity (in any letter case) when there is one, else no match.
C14_ExtractGramsPrecedence ==
  IsExtraction =>
    IF PartsIn("g") # {}
      THEN ~response.grams.none /\ response.grams.grams = FInt(FirstIn("g"))
    ELSE IF PartsIn("ml") # {}
      THEN ~response.grams.none /\ response.grams.grams = FInt(FirstIn("ml"))
    ELSE IF PartsIn("el") # {}
      THEN ~response.grams.none /\ response.grams.grams = FInt(20 * FirstIn("el"))
    ELSE response.grams.none

\* "3 el, 200ml, 5 gram": the g quantity stands last and wins
C14_Witness ==
  /\ IsExtraction
  /\ Len(response.parts) = 3
  /\ DescParts[response.parts[1]].unit = "el"
  /\ DescParts[response.parts[2]].unit = "ml"
  /\ DescParts[response.parts[3]].unit = "g"
  /\ response.grams.grams = FInt(5)

\* C15: whenever _extract_grams returns a quantity and not "no match", the
\* quantity is strictly positive. ("0g" is answered with the quantity 0.0.)
C15_ExtractedQuantityIsPositive ==
  IsExtraction => (~response.grams.none => FGt(response.grams.grams, FZero))

\* C16: an analysis raises no error for any input, a matched food row with
\* portion_g = 0 included: it always answers with a report. (The division
\* grams / portion_g is not guarded and the request ends in a 500.)
C16_AnalysisAlwaysAnswersWithReport ==
  (response.route \in {"prostate_analysis", "cardio_analysis"}) => "body" \in DOMAIN response

\* the substance definitions of the route that answered
ReportDefinitions ==
  IF response.route = "prostate_analysis" THEN PROSTATE_SUBSTANCES ELSE CARDIO_SUBSTANCES

\* C17: when the date has no meal text and no record with taken = 1, the
\* report holds one entry per substance definition of the route, in the order
\* of the definitions, each with from_supplements = from_food = total = 0, no
\* sources, status "none" and severity 0.
C17_EmptyDayReportsNone ==
  (/\ IsReport
   /\ ReportDescs = <<>>
   /\ \A k \in DOMAIN supplement_intake :
        supplement_intake[k].date = response.body.date => supplement_intake[k].taken # 1)
    => /\ Len(response.body.substances) = Len(ReportDefinitions)
       /\ \A k \in DOMAIN ReportDefinitions :
            /\ response.body.substances[k].key = ReportDefinitions[k].key
            /\ response.body.substances[k].optimal_min = ReportDefinitions[k].min
            /\ response.body.substances[k].optimal_max = ReportDefinitions[k].max
            /\ response.body.substances[k].from_supplements = FZero
            /\ response.body.substances[k].from_food = FZero
            /\ response.body.substances[k].total = FZero
            /\ response.body.substances[k].sources = <<>>
            /\ response.body.substances[k].status = "none"
            /\ response.body.substances[k].severity = FZero

\* the report of a date without meals whose only intake record is untaken,
\* while another date has a meal
C17_Witness ==
  /\ IsReport
  /\ response.body.date = "2026-02-19"
  /\ ReportDescs = <<>>
  /\ meals # <<>>
  /\ \E k \in DOMAIN supplement_intake :
       supplement_intake[k].date = "2026-02-19" /\ supplement_intake[k].taken = 0
  /\ \A k \in DOMAIN supplement_intake : supplement_intake[k].taken = 0
  /\ Len(response.body.substances) = 15

\* C18: a call of prostate_analysis or cardio_analysis leaves the tables
\* meals, meal_components, supplement_intake and food_nutrients as they were;
\* only the response is new.
C18_AnalysisHasNoSideEffects ==
  [][\A date \in Dates :
       (prostate_analysis(date) \/ cardio_analysis(date))
         => /\ meals' = meals
            /\ meal_components' = meal_components
            /\ supplement_intake' = supplement_intake
            /\ food_nutrients' = food_nutrients]_vars

\* a report answered while every table holds rows
C18_Witness ==
  /\ IsReport
  /\ meals # <<>>
  /\ meal_components # <<>>
  /\ supplement_intake # <<>>
  /\ food_nutrients # <<>>

\* ------------------------------------------------------------------------
\* calc_workout_calories on its own.  An optional argument is <<>> for None
\* and <<x>> for the number x; numbers are integers, a negative float is
\* [neg |-> TRUE, abs |-> its magnitude].
\* ------------------------------------------------------------------------

BIRTH_YEAR == 1971

None == <<>>

\* the years date.today() can fall in
Years == {2025, 2026}

\* energies in kJ a caller can pass
EnergyArgs == {None, <<0>>, <<2>>, <<3>>, <<75>>, <<800>>, <<0 - 800>>}

\* average heart rates a caller can pass
HeartRateArgs ==
  {None, <<0>>, <<90>>, <<98>>, <<99>>, <<100>>, <<115>>, <<116>>, <<131>>, <<132>>,
   <<133>>, <<148>>, <<149>>, <<165>>}

DurationArgs == {45}

\* Python's truth value of an optional number
Truthy(arg) == arg # None /\ arg[1] # 0

Magnitude(n) == IF n < 0 THEN 0 - n ELSE n

\* round(x) of a float x >= 0: the nearest integer, ties to even
PyRoundInt(x) == BToInt(FScaledInt(x, 1))

\* round(n / 4.184) of an integer n; division and rounding are symmetric in
\* the sign
RoundedKcal(n) ==
  IF n < 0 THEN 0 - PyRoundInt(FDiv(FInt(0 - n), FDec(4184, 1000)))
  ELSE PyRoundInt(FDiv(FInt(n), FDec(4184, 1000)))

\* round(active_energy_kj / 4.184) if active_energy_kj else 0
KcalBurned(active_energy_kj) ==
  IF Truthy(active_energy_kj) THEN RoundedKcal(active_energy_kj[1]) ELSE 0

ZoneSplit(fat_pct, kh_pct, zone, zone_label) ==
  [fat_pct |-> fat_pct, kh_pct |-> kh_pct, zone |-> zone, zone_label |-> zone_label]

\* avg_hr / hr_max * 100
HrPct(avg_hr, hr_max) == FMul(FDiv(FInt(avg_hr), FInt(hr_max)), FInt(100))

ZoneOfPct(hr_pct) ==
  IF FLt(hr_pct, FInt(60))
    THEN ZoneSplit(FDec(70, 100), FDec(30, 100), 1, "Grundlagen (Fettverbrennung)")
  ELSE IF FLt(hr_pct, FInt(70))
    THEN ZoneSplit(FDec(60, 100), FDec(40, 100), 2, "Fettverbrennung")
  ELSE IF FLt(hr_pct, FInt(80))
    THEN ZoneSplit(FDec(50, 100), FDec(50, 100), 3, "Aerob (Mischzone)")
  ELSE IF FLt(hr_pct, FInt(90))
    THEN ZoneSplit(FDec(25, 100), FDec(75, 100), 4, "Anaerob (KH-dominant)")
  ELSE ZoneSplit(FDec(10, 100), FDec(90, 100), 5, "Maximalkraft")

\* the zone of the average heart rate, the mixed zone without one
ZoneOf(avg_hr, hr_max) ==
  IF Truthy(avg_hr) THEN ZoneOfPct(HrPct(avg_hr[1], hr_max))
  ELSE ZoneSplit(FDec(5, 10), FDec(5, 10), 3, "Mischzone")

\* a variant that takes 9 kcal per gram for every macro
GramsBurnedPerNine(kcal_burned, pct, kcal_per_g) ==
  [neg |-> kcal_burned < 0,
   abs |-> PyRound(FDiv(FMul(FInt(Magnitude(kcal_burned)), pct), FInt(9)), 10)]

\* round(kcal_burned * pct / kcal_per_g, 1)
GramsBurned(kcal_burned, pct, kcal_per_g) ==
  [neg |-> kcal_burned < 0,
   abs |-> PyRound(FDiv(FMul(FInt(Magnitude(kcal_burned)), pct), FInt(kcal_per_g)), 10)]

WorkoutCalc(kcal_burned, split, hr_max, avg_hr) ==
  [kcal_burned  |-> kcal_burned,
   fat_g_burned |-> GramsBurned(kcal_burned, split.fat_pct, 9),
   kh_g_burned  |-> GramsBurned(kcal_burned, split.kh_pct, 4),
   fat_pct      |-> PyRoundInt(FMul(split.fat_pct, FInt(100))),
   kh_pct       |-> PyRoundInt(FMul(split.kh_pct, FInt(100))),
   zone         |-> split.zone,
   zone_label   |-> split.zone_label,
   hr_max       |-> hr_max,
   avg_hr       |-> avg_hr]

\* a variant with the figure of the docstring, whatever the year
HrMaxOfDocstring(year) == 166

HrMax(year) == 220 - (year - BIRTH_YEAR)

\* calc_workout_calories(active_energy_kj, avg_hr, duration_min), called in
\* some year
calc_workout_calories(active_energy_kj, avg_hr, duration_min) ==
  /\ \E year \in Years :
       response' =
         [route            |-> "calc_workout_calories",
          year             |-> year,
          active_energy_kj |-> active_energy_kj,
          avg_hr           |-> avg_hr,
          duration_min     |-> duration_min,
          result           |-> WorkoutCalc(KcalBurned(active_energy_kj),
                                           ZoneOf(avg_hr, HrMax(year)),
                                           HrMax(year), avg_hr)]
  /\ UNCHANGED <<meals, meal_components, supplement_intake, food_nutrients, supplements, in_flight>>

NextWorkout ==
  \E active_energy_kj \in EnergyArgs, avg_hr \in HeartRateArgs, duration_min \in DurationArgs :
    calc_workout_calories(active_energy_kj, avg_hr, duration_min)

SpecWorkout == Init /\ [][NextWorkout]_vars

IsWorkoutCalc == response.route = "calc_workout_calories"

\* the bucket of avg_hr / hr_max * 100 in exact arithmetic
ExactZone(avg_hr, hr_max) ==
  IF avg_hr * 100 < 60 * hr_max THEN 1
  ELSE IF avg_hr * 100 < 70 * hr_max THEN 2
  ELSE IF avg_hr * 100 < 80 * hr_max THEN 3
  ELSE IF avg_hr * 100 < 90 * hr_max THEN 4
  ELSE 5

FatPctOfZone == <<70, 60, 50, 25, 10>>

HasZone(r, zone) ==
  /\ r.zone = zone
  /\ r.fat_pct = FatPctOfZone[zone]
  /\ r.kh_pct = 100 - FatPctOfZone[zone]

\* C19: without an average heart rate the result is zone 3 with 50 / 50; with
\* any average heart rate >= 0, 0 included, the zone and the split are those
\* of the bucket of avg_hr / hr_max * 100.
C19_ZoneOfEverySuppliedHeartRate ==
  IsWorkoutCalc =>
    IF response.avg_hr = None THEN HasZone(response.result, 3)
    ELSE HasZone(response.result, ExactZone(response.avg_hr[1], response.result.hr_max))

\* n is k * 4.184 to within half a unit of k
NearestKcal(n, k) ==
  /\ 2 * (1000 * n - 4184 * k) <= 4184
  /\ 2 * (4184 * k - 1000 * n) <= 4184

FormulaGrams(kcal, pct, kcal_per_g) ==
  PyRound(FDiv(FDiv(FInt(kcal * pct), FInt(100)), FInt(kcal_per_g)), 10)

GramsByFormula(g, kcal, pct, kcal_per_g) ==
  /\ g.abs = FormulaGrams(Magnitude(kcal), pct, kcal_per_g)
  /\ g.neg = (kcal < 0)

\* C21 as stated: the gram figures are round(kcal_burned * pct / 100 / 9, 1)
\* and round(kcal_burned * pct / 100 / 4, 1) with the reported percentages,
\* the percentages add up to 100, and both figures are 0 when kcal_burned is 0.
C21_GramsAreFormulaOfReportedPercentages ==
  IsWorkoutCalc =>
    /\ GramsByFormula(response.result.fat_g_burned, response.result.kcal_burned,
                      response.result.fat_pct, 9)
    /\ GramsByFormula(response.result.kh_g_burned, response.result.kcal_burned,
                      response.result.kh_pct, 4)
    /\ response.result.fat_pct + response.result.kh_pct = 100
    /\ response.result.kcal_burned = 0 =>
         /\ response.result.fat_g_burned.abs = FZero
         /\ response.result.kh_g_burned.abs = FZero

\* g is a whole number of tenths, and no other tenth is nearer to
\* kcal * pct / 100 / kcal_per_g
NearestTenth(g, kcal, pct, kcal_per_g) ==
  /\ g.abs = FDec(Tenths(g.abs), 10)
  /\ 2 * (Tenths(g.abs) * 100 * kcal_per_g - 10 * Magnitude(kcal) * pct) <= 100 * kcal_per_g
  /\ 2 * (10 * Magnitude(kcal) * pct - Tenths(g.abs) * 100 * kcal_per_g) <= 100 * kcal_per_g
  /\ g.neg = (kcal < 0)

\* C21, amended: the gram figures are kcal_burned * pct / 100 / 9 and
\* kcal_burned * pct / 100 / 4 to the nearest tenth, with the percentages of
\* the reported zone, which add up to 100; where the quotient lies halfway
\* between two tenths either of them may be reported.  Both figures are 0 when
\* kcal_burned is 0.
C21_GramsAreNearestTenth ==
  IsWorkoutCalc =>
    /\ HasZone(response.result, response.result.zone)
    /\ NearestTenth(response.result.fat_g_burned, response.result.kcal_burned,
                    response.result.fat_pct, 9)
    /\ NearestTenth(response.result.kh_g_burned, response.result.kcal_burned,
                    response.result.kh_pct, 4)
    /\ response.result.kcal_burned = 0 =>
         /\ response.result.fat_g_burned.abs = FZero
         /\ response.result.kh_g_burned.abs = FZero

\* 18 kcal in zone 1: 18 * 30 / 100 / 4 is 1.35, reported as 1.3
C21_Witness ==
  /\ IsWorkoutCalc
  /\ response.result.kcal_burned = 18
  /\ response.result.zone = 1
  /\ response.result.kh_g_burned.abs = FDec(13, 10)
  /\ response.result.fat_g_burned.abs = FDec(14, 10)

\* C22 as stated: hr_max is 220 - (current year - BIRTH_YEAR), and 166 at the
\* age of 55.
C22_HrMaxIs166AtAge55 ==
  IsWorkoutCalc =>
    /\ response.result.hr_max = 220 - (response.year - 1971)
    /\ response.year - 1971 = 55 => response.result.hr_max = 166

\* C22, amended: hr_max is 220 - (current year - BIRTH_YEAR), which is 165 at
\* the age of 55 and 166 at the age of 54.
C22_HrMaxIs165AtAge55 ==
  IsWorkoutCalc =>
    /\ response.result.hr_max = 220 - (response.year - 1971)
    /\ response.year - 1971 = 55 => response.result.hr_max = 165
    /\ response.year - 1971 = 54 => response.result.hr_max = 166

\* a call in 2026, at the age of 55
C22_Witness ==
  /\ IsWorkoutCalc
  /\ response.year = 2026
  /\ response.result.hr_max = 165

\* ------------------------------------------------------------------------
\* get_workout_data and daily_summary.  A JSON value is [t, n]: a missing
\* key, null, the integer n or a text; an answer of the health service is a
\* failure of the request, a body that is no JSON, a JSON list or an object.
\* ------------------------------------------------------------------------

JMissing == [t |-> "missing", n |-> 0]

JNull == [t |-> "null", n |-> 0]

JNum(n) == [t |-> "num", n |-> n]

JStr == [t |-> "str", n |-> 0]

\* Python's truth value of a JSON value (the texts are not empty)
JTruthy(v) == v.t = "str" \/ (v.t = "num" /\ v.n # 0)

\* dict.get(key, 0) or 0
OrZero(v) == IF JTruthy(v) THEN v ELSE JNum(0)

\* t.get('avg_hr') or t.get('hr_avg') or None
FirstOrNone(a, b) == IF JTruthy(a) THEN a ELSE IF JTruthy(b) THEN b ELSE JNull

NoAnswer(kind) ==
  [kind |-> kind, training |-> "missing", done |-> FALSE, duration |-> JMissing,
   avg_hr |-> JMissing, hr_avg |-> JMissing, active_energy |-> JMissing,
   calories |-> JMissing]

\* {"training": {"done": ..., "duration": ..., ...}}
Training(done, duration, avg_hr, hr_avg, active_energy, calories) ==
  [kind |-> "object", training |-> "dict", done |-> done, duration |-> duration,
   avg_hr |-> avg_hr, hr_avg |-> hr_avg, active_energy |-> active_energy,
   calories |-> calories]

\* what /api/training/<date> can answer
TrainingAnswers ==
  << NoAnswer("down"),
     NoAnswer("timeout"),
     NoAnswer("malformed"),
     NoAnswer("list"),
     NoAnswer("object"),
     [NoAnswer("object") EXCEPT !.training = "str"],
     Training(FALSE, JNum(45), JNum(120), JMissing, JNum(800), JMissing),
     Training(TRUE, JMissing, JMissing, JMissing, JMissing, JMissing),
     Training(TRUE, JNum(45), JNum(120), JMissing, JNum(800), JMissing),
     Training(TRUE, JNum(45), JNum(90), JMissing, JNum(75), JMissing),
     Training(TRUE, JNum(45), JNull, JNum(140), JMissing, JNum(191)),
     Training(TRUE, JNum(45), JNum(0), JNum(155), JNum(0 - 800), JNum(191)),
     Training(TRUE, JNum(45), JNum(0), JMissing, JNum(0 - 800), JNum(0 - 5)),
     Training(TRUE, JNum(45), JNum(0 - 5), JMissing, JNum(800), JMissing),
     Training(TRUE, JNum(45), JNum(120), JMissing, JStr, JMissing),
     Training(TRUE, JNum(45), JNum(120), JMissing, JNull, JStr),
     Training(TRUE, JStr, JNum(120), JMissing, JNum(800), JStr),
     Training(TRUE, JNum(45), JStr, JMissing, JNum(800), JMissing) >>

Steps(kind, steps) == [kind |-> kind, steps |-> steps]

\* what /api/steps/<date> can answer
StepsAnswers ==
  << Steps("down", JMissing), Steps("list", JMissing), Steps("object", JMissing),
     Steps("object", JNum(5000)) >>

WorkoutDefaults ==
  [active_energy_kj |-> FZero, avg_hr |-> JNull, duration_min |-> JNum(0),
   steps |-> JNum(0), has_workout |-> FALSE]

\* kcal to kJ
KcalToKj(n) == FMul(FInt(n), FDec(4184, 1000))

\* the energy of the training; a comparison of a text with 0 raises, which
\* ends the lookup with what is set so far
WithEnergy(result, ae_kj, ae_kcal) ==
  IF ae_kj.t = "str" THEN result
  ELSE IF ae_kj.n > 0
    THEN [result EXCEPT !.active_energy_kj =
            IF ae_kj.n > 100 THEN FInt(ae_kj.n) ELSE KcalToKj(ae_kj.n)]
  ELSE IF ae_kcal.t = "str" THEN result
  ELSE IF ae_kcal.n > 0 THEN [result EXCEPT !.active_energy_kj = KcalToKj(ae_kcal.n)]
  ELSE result

\* the first try block of get_workout_data
TrainingLookup(result, a) ==
  IF a.kind # "object" \/ a.training # "dict" \/ ~a.done THEN result
  ELSE WithEnergy([result EXCEPT !.has_workout = TRUE,
                                 !.duration_min = OrZero(a.duration),
                                 !.avg_hr = FirstOrNone(a.avg_hr, a.hr_avg)],
                  OrZero(a.active_energy), OrZero(a.calories))

\* the second try block of get_workout_data
StepsLookup(result, a) ==
  IF a.kind # "object" THEN result ELSE [result EXCEPT !.steps = OrZero(a.steps)]

\* the training lookup ends in its except branch
TrainingRaises(a) ==
  \/ a.kind # "object"
  \/ a.training = "str"
  \/ /\ a.training = "dict"
     /\ a.done
     /\ \/ OrZero(a.active_energy).t = "str"
        \/ /\ OrZero(a.active_energy).n <= 0
           /\ OrZero(a.calories).t = "str"

\* a variant with one try block around both lookups
WorkoutDataInOneTry(training, steps) ==
  IF TrainingRaises(training) THEN TrainingLookup(WorkoutDefaults, training)
  ELSE StepsLookup(TrainingLookup(WorkoutDefaults, training), steps)

WorkoutData(training, steps) ==
  StepsLookup(TrainingLookup(WorkoutDefaults, training), steps)

\* get_workout_data(date) with the answers of the health service
get_workout_data(date) ==
  /\ \E i \in DOMAIN TrainingAnswers, j \in DOMAIN StepsAnswers :
       response' = [route |-> "get_workout_data", date |-> date,
                    training |-> i, steps |-> j,
                    result |-> WorkoutData(TrainingAnswers[i], StepsAnswers[j])]
  /\ UNCHANGED <<meals, meal_components, supplement_intake, food_nutrients, supplements, in_flight>>

\* round(active_energy_kj / 4.184) if active_energy_kj else 0, for the float
\* get_workout_data hands over
KcalBurnedOf(active_energy_kj) ==
  IF active_energy_kj = FZero THEN 0
  ELSE PyRoundInt(FDiv(active_energy_kj, FDec(4184, 1000)))

\* the zone of the avg_hr get_workout_data hands over: None or a number that
\* is not 0; a negative hr_pct is below 60
ZoneOfJson(avg_hr, hr_max) ==
  IF avg_hr.t = "null" THEN ZoneOf(None, hr_max)
  ELSE IF avg_hr.n < 0
    THEN ZoneSplit(FDec(70, 100), FDec(30, 100), 1, "Grundlagen (Fettverbrennung)")
  ELSE ZoneOf(<<avg_hr.n>>, hr_max)

\* SUM(calories) of the day's meals: the meals of the model are posted
\* without calories and stored with 0
TotalCalories(date) == FZero

FatGoal(has_workout, kcal_burned, zone) ==
  IF has_workout /\ kcal_burned > 0 /\ zone <= 2 THEN 70 ELSE 65

CarbsGoal(has_workout, kcal_burned, zone) ==
  IF has_workout /\ kcal_burned > 0 /\ zone >= 4 THEN 280 ELSE 250

Summary(date, year, workout, calc) ==
  [route        |-> "daily_summary",
   code         |-> 200,
   date         |-> date,
   year         |-> year,
   calories     |-> TotalCalories(date),
   goals        |-> [calories  |-> 2000 + calc.kcal_burned,
                     protein_g |-> IF workout.has_workout THEN 90 ELSE 80,
                     fat_g     |-> FatGoal(workout.has_workout, calc.kcal_burned, calc.zone),
                     carbs_g   |-> CarbsGoal(workout.has_workout, calc.kcal_burned, calc.zone),
                     fiber_g   |-> 30],
   progress     |-> PyRound(FMul(FDiv(TotalCalories(date), FInt(2000 + calc.kcal_burned)),
                                 FInt(100)), 10),
   workout      |-> workout,
   calc         |-> calc,
   net_calories |-> 0 - calc.kcal_burned,
   base_goal    |-> 2000]

\* avg_hr / hr_max raises for a text
SummaryOf(date, year, workout) ==
  IF workout.avg_hr.t = "str"
    THEN [route |-> "daily_summary", code |-> 500, error |-> "TypeError",
          date |-> date, year |-> year, workout |-> workout]
    ELSE Summary(date, year, workout,
                 WorkoutCalc(KcalBurnedOf(workout.active_energy_kj),
                             ZoneOfJson(workout.avg_hr, HrMax(year)),
                             HrMax(year), workout.avg_hr))

\* GET /api/summary/<date>
daily_summary(date) ==
  /\ \E i \in DOMAIN TrainingAnswers, j \in DOMAIN StepsAnswers, year \in Years :
       response' = SummaryOf(date, year, WorkoutData(TrainingAnswers[i], StepsAnswers[j]))
  /\ UNCHANGED <<meals, meal_components, supplement_intake, food_nutrients, supplements, in_flight>>

NextSummary == \E date \in Dates : get_workout_data(date) \/ daily_summary(date)

SpecSummary == Init /\ [][NextSummary]_vars

IsWorkoutData == response.route = "get_workout_data"

TrainingFields(result) ==
  <<result.has_workout, result.active_energy_kj, result.avg_hr, result.duration_min>>

\* C23: when the training lookup fails at any point, the training fields are
\* the defaults together: has_workout False, active_energy_kj 0, avg_hr None,
\* duration_min 0.
C23_FailedTrainingLookupLeavesDefaults ==
  IsWorkoutData /\ TrainingRaises(TrainingAnswers[response.training]) =>
    TrainingFields(response.result) = <<FALSE, FZero, JNull, JNum(0)>>

\* C24: the step lookup runs and sets steps whatever became of the training
\* lookup, and when the step lookup fails steps stays 0 and the training
\* fields are those obtained with a step service that answers.
C24_LookupsFailIndependently ==
  IsWorkoutData =>
    /\ StepsAnswers[response.steps].kind = "object" =>
         response.result.steps = OrZero(StepsAnswers[response.steps].steps)
    /\ StepsAnswers[response.steps].kind # "object" =>
         /\ response.result.steps = JNum(0)
         /\ TrainingFields(response.result) =
              TrainingFields(WorkoutData(TrainingAnswers[response.training],
                                         Steps("object", JNum(5000))))

\* the training service is down and the steps are set
C24_Witness ==
  /\ IsWorkoutData
  /\ TrainingAnswers[response.training].kind = "down"
  /\ response.result.steps = JNum(5000)
  /\ ~response.result.has_workout

\* C25: daily_summary answers with a summary whatever the health service
\* does or sends.
C25_SummaryAlwaysAnswers ==
  response.route = "daily_summary" => response.code = 200

\* ------------------------------------------------------------------------
\* rows of food_nutrients that share a food_name
\* ------------------------------------------------------------------------

InitSameName ==
  /\ meals = <<>>
  /\ meal_components = <<>>
  /\ supplement_intake = <<>>
  /\ supplements = SeedSupplements
  /\ in_flight = NoRequests
  /\ food_nutrients \in SameNameFoodTables
  /\ response = NoResponse

SpecSameName == InitSameName /\ [][NextFoods]_vars

PairKwLen(p) == Len(FirstKeyword(food_nutrients[p[1]], ReportDescs[p[2]]))

\* q has the dedup key of p and stands before it after the stable sort
Outranks(q, p) ==
  /\ q[2] = p[2]
  /\ food_nutrients[q[1]].food_name = food_nutrients[p[1]].food_name
  /\ \/ PairKwLen(q) > PairKwLen(p)
     \/ PairKwLen(q) = PairKwLen(p) /\ q[1] < p[1]

Winners == {p \in MatchingPairs : \A q \in MatchingPairs : ~Outranks(q, p)}

\* C26: of the candidates with one (text index, food name) the one with the
\* longest matched keyword alone contributes to totals and sources, the
\* earlier row of the food table when the lengths are equal; the others are
\* discarded.
C26_LongestKeywordWinsSharedKey ==
  IsReport =>
    /\ \A p \in MatchingPairs :
         Cardinality(PositionsOf(ReportKept, p[1], p[2])) = IF p \in Winners THEN 1 ELSE 0
    /\ Len(ReportKept) = Cardinality(Winners)
    /\ \A e \in ReportEntries :
         /\ e.from_food = PyRound(ExpectedSum(ReportKept, 1, e.key, FZero), 10)
         /\ FoodSourceCount(e)
              = Cardinality({p \in Winners :
                               FGt(ExpectedVal(food_nutrients[p[1]], ReportDescs[p[2]], e.key),
                                   FZero)})
    /\ (food_nutrients = SeedFoods \o <<Food_LachsRoh>> /\ ReportDescs = <<Text_Lachsfilet>>) =>
         EntryOf("omega3_epa_dha_mg").from_food = FInt(1200)
    /\ (food_nutrients = SeedFoods \o <<Food_EdamameTK>>
          /\ ReportDescs = <<Text_LachsEdamame, Text_Ketchup>>) =>
         (HasEntry("zink_mg") => EntryOf("zink_mg").from_food = FDec(21, 10))

\* "LACHSFILET" with two rows named "Lachs": the seeded row matches "lachs",
\* the added row "lachsfilet"; the added row alone is kept
C26_Witness ==
  /\ IsReport
  /\ food_nutrients = SeedFoods \o <<Food_LachsRoh>>
  /\ ReportDescs = <<Text_Lachsfilet>>
  /\ Cardinality(MatchingPairs) = 2
  /\ Len(ReportKept) = 1
  /\ ReportKept[1].food = Food_LachsRoh
  /\ EntryOf("omega3_epa_dha_mg").from_food = FInt(1200)
  /\ FoodSourceCount(EntryOf("omega3_epa_dha_mg")) = 1

\* ------------------------------------------------------------------------
\* the two analyses side by side
\* ------------------------------------------------------------------------

SharedKeys == {"omega3_epa_dha_mg", "boswellia_mg", "caffeine_mg"}

EntryIn(resp, key) == CHOOSE e \in Range(resp.body.substances) : e.key = key

SameFigures(a, b) ==
  /\ a.from_supplements = b.from_supplements
  /\ a.from_food = b.from_food
  /\ a.total = b.total
  /\ a.sources = b.sources
  /\ a.status = b.status
  /\ a.severity = b.severity

SameSharedEntries(a, b) ==
  \A key \in SharedKeys : SameFigures(EntryIn(a, key), EntryIn(b, key))

ScheduleDates == {"2026-02-19", "2026-02-20", "2026-02-23"}

\* datetime.strptime(date, '%Y-%m-%d'): year, month and day of the text
strptime ==
  ( "2026-02-19" :> <<2026, 2, 19>> ) @@
  ( "2026-02-20" :> <<2026, 2, 20>> ) @@
  ( "2026-02-23" :> <<2026, 2, 23>> )

IsLeap(y) == y % 4 = 0 /\ (y % 100 # 0 \/ y % 400 = 0)

DaysInMonth(y, m) ==
  IF m = 2 THEN (IF IsLeap(y) THEN 29 ELSE 28)
  ELSE IF m \in {4, 6, 9, 11} THEN 30 ELSE 31

RECURSIVE DaysBeforeMonth(_, _)
DaysBeforeMonth(y, m) ==
  IF m = 1 THEN 0 ELSE DaysBeforeMonth(y, m - 1) + DaysInMonth(y, m - 1)

\* the proleptic Gregorian ordinal of a day, 0001-01-01 being day 1
ToOrdinal(ymd) ==
  365 * (ymd[1] - 1) + (ymd[1] - 1) \div 4 - (ymd[1] - 1) \div 100 + (ymd[1] - 1) \div 400
    + DaysBeforeMonth(ymd[1], ymd[2]) + ymd[3]

\* datetime.weekday(): 0 = Monday ... 6 = Sunday
Weekday(date) == (ToOrdinal(strptime[date]) + 6) % 7

\* is_weekend = weekday >= 4  (Friday, Saturday, Sunday)
IsWeekend(date) == Weekday(date) >= 4

\* auto_taken of a supplement on a date
AutoTaken(sid, date) ==
  IF sid = 9 THEN 0
  ELSE IF sid = 4 /\ ~IsWeekend(date) THEN 0
  ELSE 1

\* count = SELECT COUNT(*) FROM supplement_intake WHERE date=?
CountOf(table, date) == Cardinality({k \in DOMAIN table : table[k].date = date})

\* the slots whose dose column is truthy, in the order of the three ifs
ScheduledSlots(s) ==
  (IF s.dose_morning # 0 THEN <<"morning">> ELSE <<>>)
    \o (IF s.dose_noon # 0 THEN <<"noon">> ELSE <<>>)
    \o (IF s.dose_evening # 0 THEN <<"evening">> ELSE <<>>)

ScheduledRecords(s, date) ==
  [n \in DOMAIN ScheduledSlots(s) |->
     [date |-> date, supplement_id |-> s.id, dose_slot |-> ScheduledSlots(s)[n],
      taken |-> AutoTaken(s.id, date)]]

\* SELECT id, dose_morning, dose_noon, dose_evening FROM supplements
\* WHERE active=1 ORDER BY id  (the table is kept in id order)
ActiveSupplements(supps) == SelectSeq(supps, LAMBDA s : s.active = 1)

\* the records of the loop over the active supplements, in insertion order
RECURSIVE ScheduleFrom(_, _, _)
ScheduleFrom(supps, j, date) ==
  IF j > Len(supps) THEN <<>>
  ELSE ScheduledRecords(supps[j], date) \o ScheduleFrom(supps, j + 1, date)

\* the unique index idx_supplement_intake_unique on (date, supplement_id,
\* dose_slot) rejects a record whose key a row holds; NULL slots never collide
Collides(table, r) ==
  /\ r.dose_slot # NullSlot
  /\ \E k \in DOMAIN table : DoseKey(table[k]) = DoseKey(r)

\* the records the INSERT OR IGNOREs of ensure_supplement_records leave in the
\* table: a record whose key a row holds is skipped; the records of one
\* schedule differ in the supplement (PRIMARY KEY id) or in the slot
Filled(table, supps, date) ==
  table \o SelectSeq(ScheduleFrom(ActiveSupplements(supps), 1, date),
                     LAMBDA r : ~Collides(table, r))

\* a variant that completes the schedule of a date that has records
EnsureEverySlot(table, supps, date) == Filled(table, supps, date)

\* the table after ensure_supplement_records(db, date)
ensure_supplement_records(table, supps, date) ==
  IF CountOf(table, date) > 0 THEN table ELSE Filled(table, supps, date)

\* CASE dose_slot WHEN 'morning' THEN 1 WHEN 'noon' THEN 2 WHEN 'evening' THEN 3 END,
\* NULL (sorted first) for anything else
SlotCase(slot) ==
  IF slot = "morning" THEN 1 ELSE IF slot = "noon" THEN 2 ELSE IF slot = "evening" THEN 3 ELSE 0

\* slot_order.get(d['dose_slot'], 9)
SlotOrder(slot) ==
  IF slot = "morning" THEN 0 ELSE IF slot = "noon" THEN 1 ELSE IF slot = "evening" THEN 2 ELSE 9

DoseOut(r) == [dose_slot |-> r.dose_slot, taken |-> r.taken]

\* the doses of a supplement on a date in the ORDER BY of the query, rows
\* of one rank in rowid order
DosesOf(table, date, sid) ==
  LET Rank(c) == SelectSeq(table, LAMBDA r : r.date = date /\ r.supplement_id = sid
                                             /\ SlotCase(r.dose_slot) = c)
      All == Rank(0) \o Rank(1) \o Rank(2) \o Rank(3)
  IN  [n \in DOMAIN All |-> DoseOut(All[n])]

\* min((slot_order.get(d['dose_slot'], 9) for d in s['doses']), default=9)
EarliestSlot(e) ==
  IF \E n \in DOMAIN e.doses : SlotOrder(e.doses[n].dose_slot) = 0 THEN 0
  ELSE IF \E n \in DOMAIN e.doses : SlotOrder(e.doses[n].dose_slot) = 1 THEN 1
  ELSE IF \E n \in DOMAIN e.doses : SlotOrder(e.doses[n].dose_slot) = 2 THEN 2
  ELSE 9

\* the list GET /api/supplement-intake/<date> answers: one entry per active
\* supplement, sorted (stably) by its earliest slot
IntakeList(table, supps, date) ==
  LET active  == ActiveSupplements(supps)
      entries == [j \in DOMAIN active |->
                    [supplement_id |-> active[j].id,
                     dose_morning |-> active[j].dose_morning,
                     dose_noon |-> active[j].dose_noon,
                     dose_evening |-> active[j].dose_evening,
                     doses |-> DosesOf(table, date, active[j].id)]]
      By(c) == SelectSeq(entries, LAMBDA e : EarliestSlot(e) = c)
  IN  By(0) \o By(1) \o By(2) \o By(9)

\* GET /api/supplement-intake/<date>
get_supplement_intake(date) ==
  /\ supplement_intake' = ensure_supplement_records(supplement_intake, supplements, date)
  /\ response' = [route |-> "get_supplement_intake", date |-> date,
                  body |-> IntakeList(supplement_intake', supplements, date)]
  /\ UNCHANGED <<meals, meal_components, food_nutrients, supplements, in_flight>>

\* bodies of POST /api/supplement-intake for the schedule: the omega-3 dose
\* ticked and unticked, the evening dose of supplement 8, a dose of the
\* withdrawn supplement 2
ScheduleRequests ==
  << [date |-> "2026-02-19", supplement_id |-> 4, dose_slot |-> "noon", taken |-> 1],
     [date |-> "2026-02-19", supplement_id |-> 4, dose_slot |-> "noon", taken |-> 0],
     [date |-> "2026-02-20", supplement_id |-> 8, dose_slot |-> "evening", taken |-> 0],
     [date |-> "2026-02-23", supplement_id |-> 2, dose_slot |-> "morning", taken |-> 1] >>

InitSchedule ==
  /\ meals = <<>>
  /\ meal_components = <<>>
  /\ supplement_intake = <<>>
  /\ supplements \in {SeedSupplements, MaintainedSupplements}
  /\ in_flight = NoRequests
  /\ food_nutrients \in FoodTables
  /\ response = NoResponse

NextSchedule ==
  \/ \E date \in ScheduleDates : get_supplement_intake(date)
  \/ \E n \in DOMAIN ScheduleRequests : post_supplement_intake(ScheduleRequests[n])

SpecSchedule == InitSchedule /\ [][NextSchedule]_vars

\* the dates of ScheduleDates that fall on Monday to Thursday
MondayToThursday == {"2026-02-19", "2026-02-23"}

RowsOn(table, date) == {k \in DOMAIN table : table[k].date = date}

\* the slots a supplement is scheduled for
SlotsOf(s) ==
  {slot \in {"morning", "noon", "evening"} :
     \/ slot = "morning" /\ s.dose_morning # 0
     \/ slot = "noon" /\ s.dose_noon # 0
     \/ slot = "evening" /\ s.dose_evening # 0}

\* the records of the date are one per scheduled slot of every active
\* supplement, taken unless the supplement is 9, or 4 on Monday to Thursday
IsAutoSchedule(table, date) ==
  /\ \A n \in DOMAIN supplements :
       \A slot \in {"morning", "noon", "evening"} :
         Cardinality({k \in RowsOn(table, date) :
                        /\ table[k].supplement_id = supplements[n].id
                        /\ table[k].dose_slot = slot})
           = IF supplements[n].active = 1 /\ slot \in SlotsOf(supplements[n]) THEN 1 ELSE 0
  /\ \A k \in RowsOn(table, date) :
       /\ \E n \in DOMAIN supplements : supplements[n].id = table[k].supplement_id
       /\ table[k].dose_slot \in {"morning", "noon", "evening"}
       /\ table[k].taken = IF table[k].supplement_id = 9 THEN 0
                           ELSE IF table[k].supplement_id = 4 /\ date \in MondayToThursday THEN 0
                           ELSE 1

\* C29: ensure_supplement_records fills only an empty date. Called (by GET
\* /api/supplement-intake/<date>) for a date that has a record, it leaves
\* supplement_intake as it is, so a second call changes nothing; called for
\* a date without records, it keeps the other dates' records and adds one
\* record per scheduled slot of every active supplement, with taken = 1
\* except for supplement 9 (0) and for supplement 4 on Monday to Thursday (0).
C29_EnsureFillsOnlyAnEmptyDate ==
  /\ [](\A date \in ScheduleDates :
          ensure_supplement_records(
              ensure_supplement_records(supplement_intake, supplements, date),
              supplements, date)
            = ensure_supplement_records(supplement_intake, supplements, date))
  /\ [][\A date \in ScheduleDates :
          get_supplement_intake(date) =>
            IF RowsOn(supplement_intake, date) # {}
              THEN supplement_intake' = supplement_intake
              ELSE /\ SubSeq(supplement_intake', 1, Len(supplement_intake)) = supplement_intake
                   /\ \A k \in DOMAIN supplement_intake' :
                        k > Len(supplement_intake) => supplement_intake'[k].date = date
                   /\ IsAutoSchedule(supplement_intake', date)]_vars

\* the Monday holds the one record a POST created and the GET for it has been
\* answered, after the Thursday was filled from the maintained table with
\* supplement 9 and supplement 4 untaken and supplement 8 taken
C29_Witness ==
  /\ response.route = "get_supplement_intake"
  /\ response.date = "2026-02-23"
  /\ supplements = MaintainedSupplements
  /\ Cardinality(RowsOn(supplement_intake, "2026-02-23")) = 1
  /\ Cardinality(RowsOn(supplement_intake, "2026-02-19")) = 11
  /\ \E i, j, k \in RowsOn(supplement_intake, "2026-02-19") :
       /\ supplement_intake[i].supplement_id = 9 /\ supplement_intake[i].taken = 0
       /\ supplement_intake[j].supplement_id = 4 /\ supplement_intake[j].taken = 0
       /\ supplement_intake[k].supplement_id = 8 /\ supplement_intake[k].taken = 1

\* ------------------------------------------------------------------------
\* Requests served side by side: each handler reads the database, then writes
\* to it; the writes of one handler up to its commit are one step, since
\* SQLite admits one writing transaction at a time.
\* ------------------------------------------------------------------------

\* bodies of POST /api/supplement-intake: one dose ticked and unticked, the
\* omega-3 dose, and a body with "dose_slot": null
ConcurrentRequests ==
  << [date |-> "2026-02-19", supplement_id |-> 8, dose_slot |-> "evening", taken |-> 1],
     [date |-> "2026-02-19", supplement_id |-> 8, dose_slot |-> "evening", taken |-> 0],
     [date |-> "2026-02-19", supplement_id |-> 4, dose_slot |-> "noon", taken |-> 1],
     [date |-> "2026-02-19", supplement_id |-> 8, dose_slot |-> NullSlot, taken |-> 1] >>

MaxNullSlotRows == 2

\* the records without a slot, stored or about to be
NullSlotRows == {k \in DOMAIN supplement_intake : supplement_intake[k].dose_slot = NullSlot}

NullSlotPosts ==
  {w \in Workers : in_flight[w].at = "post" /\ DoseSlotOf(in_flight[w].d) = NullSlot}

\* existing = db.execute('SELECT id, taken_at ... dose_slot=?').fetchone():
\* the rowid of the record found, 0 for None
ExistingOf(d) ==
  IF \E k \in DOMAIN supplement_intake : SameDose(supplement_intake[k], d)
    THEN CHOOSE k \in DOMAIN supplement_intake :
           /\ SameDose(supplement_intake[k], d)
           /\ \A j \in DOMAIN supplement_intake : SameDose(supplement_intake[j], d) => k <= j
    ELSE 0

\* POST /api/supplement-intake up to the lookup of the existing record
post_check(w, d) ==
  /\ in_flight[w] = Idle
  /\ DoseSlotOf(d) = NullSlot
       => Cardinality(NullSlotRows) + Cardinality(NullSlotPosts) < MaxNullSlotRows
  /\ in_flight' = [in_flight EXCEPT ![w] = [at |-> "post", d |-> d, existing |-> ExistingOf(d)]]
  /\ UNCHANGED <<meals, meal_components, supplement_intake, food_nutrients, response,
                 supplements>>

PostedRecord(d) ==
  [date |-> d.date, supplement_id |-> d.supplement_id,
   dose_slot |-> DoseSlotOf(d), taken |-> TakenOf(d)]

\* the rest of the handler: UPDATE ... WHERE id=? of the record found, or the
\* plain INSERT, which the unique index answers with IntegrityError when
\* a record of the key has arrived since the lookup; then commit
PostWritten(w, d, existing) ==
  /\ IF existing # 0
       THEN /\ supplement_intake' = [supplement_intake EXCEPT ![existing].taken = TakenOf(d)]
            /\ response' = [route |-> "post_supplement_intake", status |-> "ok"]
       ELSE IF Collides(supplement_intake, PostedRecord(d))
         THEN /\ supplement_intake' = supplement_intake
              /\ response' = [route |-> "post_supplement_intake", code |-> 500,
                              error |-> "IntegrityError"]
         ELSE /\ supplement_intake' = Append(supplement_intake, PostedRecord(d))
              /\ response' = [route |-> "post_supplement_intake", status |-> "ok"]
  /\ in_flight' = [in_flight EXCEPT ![w] = Idle]
  /\ UNCHANGED <<meals, meal_components, food_nutrients, supplements>>

post_write(w) ==
  /\ in_flight[w].at = "post"
  /\ PostWritten(w, in_flight[w].d, in_flight[w].existing)

\* GET /api/supplement-intake/<date> up to the count of ensure_supplement_records
get_count(w, date) ==
  /\ in_flight[w] = Idle
  /\ in_flight' = [in_flight EXCEPT ![w] = [at |-> "get", date |-> date,
                                            count |-> CountOf(supplement_intake, date)]]
  /\ UNCHANGED <<meals, meal_components, supplement_intake, food_nutrients, response,
                 supplements>>

\* the rest of the handler: nothing for a counted date, else the INSERT OR
\* IGNOREs and the commit; then the list is read and answered
GetFilled(w, date, count) ==
  /\ supplement_intake' = IF count > 0 THEN supplement_intake
                                       ELSE Filled(supplement_intake, supplements, date)
  /\ response' = [route |-> "get_supplement_intake", date |-> date,
                  body |-> IntakeList(supplement_intake', supplements, date)]
  /\ in_flight' = [in_flight EXCEPT ![w] = Idle]
  /\ UNCHANGED <<meals, meal_components, food_nutrients, supplements>>

get_fill(w) ==
  /\ in_flight[w].at = "get"
  /\ GetFilled(w, in_flight[w].date, in_flight[w].count)

NextConcurrent ==
  \/ \E w \in Workers, n \in DOMAIN ConcurrentRequests : post_check(w, ConcurrentRequests[n])
  \/ \E w \in Workers : post_write(w)
  \/ \E w \in Workers, date \in Dates : get_count(w, date)
  \/ \E w \in Workers : get_fill(w)

SpecConcurrent == Init /\ [][NextConcurrent]_vars

\* C28: in every state reached by interleaved POST /api/supplement-intake
\* and GET /api/supplement-intake/<date> requests, no two records of
\* supplement_intake have the same date, supplement_id and dose_slot.
C28_OneRecordPerDose ==
  \A j, k \in DOMAIN supplement_intake :
    DoseKey(supplement_intake[j]) = DoseKey(supplement_intake[k]) => j = k
====
